---- MODULE Spec2Model ----
(***************************************************************************)
(* Model of the antivenom_validation engine: the Severity / finding /      *)
(* result / report data model (validate/models.py), the check contract     *)
(* (validate/checks/base.py), the built-in checks (validate/checks/*.py),  *)
(* the manifest configuration (validate/manifest.py) and the runner        *)
(* (validate/runner.py).                                                   *)
(*                                                                         *)
(* Conventions.                                                            *)
(*  - Python None is the record None; an Optional value that is present is *)
(*    Some(v).                                                             *)
(*  - A Severity enum member is the string "Severity.X"; its .value is the *)
(*    plain string "X".  The two are different values, as in the code.     *)
(*  - An f-string message is the tuple <<template, arg1, ...>>.            *)
(*  - Coordinates are fixed-point numbers in hundredths of a degree.       *)
(*  - A DataFrame is [columns |-> sequence of names, rows |-> sequence of  *)
(*    functions from column name to cell]; the index of row i is i - 1     *)
(*    (the default RangeIndex).                                            *)
(***************************************************************************)
EXTENDS Integers, Sequences, FiniteSets, TLC

(***************************************************************************)
(* Bounds of the model.                                                    *)
(***************************************************************************)
MaxChecks == 2      \* longest explicitly registered check list
MaxEdits == 1       \* caller edits applied to a returned report

(***************************************************************************)
(* Generic helpers.                                                        *)
(***************************************************************************)
None == [isNone |-> TRUE]
Some(v) == [isNone |-> FALSE, v |-> v]

Range(s) == {s[i] : i \in 1..Len(s)}

Min(a, b) == IF a < b THEN a ELSE b

\* Python slice s[:n]
Take(s, n) == SubSeq(s, 1, Min(n, Len(s)))

\* <<1, ..., n>>
Indices(n) == [i \in 1..n |-> i]

\* concatenation of a sequence of sequences
RECURSIVE Flatten(_)
Flatten(ss) == IF ss = <<>> THEN <<>> ELSE Head(ss) \o Flatten(Tail(ss))

(***************************************************************************)
(* validate/models.py                                                      *)
(***************************************************************************)
\* class Severity(Enum): the members, in declaration order
Severity == {"Severity.BLOCKER", "Severity.MAJOR", "Severity.MINOR", "Severity.INFO"}

\* Severity.__members__: the names accepted by Severity[name]
SeverityMembers == {"BLOCKER", "MAJOR", "MINOR", "INFO"}

\* Severity[name] for a name in SeverityMembers
SeverityOf(name) ==
    CASE name = "BLOCKER" -> "Severity.BLOCKER"
      [] name = "MAJOR" -> "Severity.MAJOR"
      [] name = "MINOR" -> "Severity.MINOR"
      [] name = "INFO" -> "Severity.INFO"

\* member.value
SeverityValue(sev) ==
    CASE sev = "Severity.BLOCKER" -> "BLOCKER"
      [] sev = "Severity.MAJOR" -> "MAJOR"
      [] sev = "Severity.MINOR" -> "MINOR"
      [] sev = "Severity.INFO" -> "INFO"

\* the local list order of Severity.__lt__
SeverityOrder == <<"Severity.INFO", "Severity.MINOR", "Severity.MAJOR", "Severity.BLOCKER">>

\* list.index(x) for an element of the list, counted from 0
ListIndex(list, x) == (CHOOSE k \in 1..Len(list) : list[k] = x /\ \A j \in 1..(k - 1) : list[j] # x) - 1

\* a faulty variant of Severity.__lt__: the members compared by their
\* place in the class body (BLOCKER, MAJOR, MINOR, INFO)
SeverityLt_declared(a, b) ==
    LET order == <<"Severity.BLOCKER", "Severity.MAJOR", "Severity.MINOR", "Severity.INFO">>
    IN  ListIndex(order, a) < ListIndex(order, b)

\* Severity.__lt__(a, b)
SeverityLt(a, b) == ListIndex(SeverityOrder, a) < ListIndex(SeverityOrder, b)

\* @dataclass ValidationError
ValidationError(severity, category, message, row_indices, column, expected, actual, details) ==
    [severity |-> severity, category |-> category, message |-> message,
     row_indices |-> row_indices, column |-> column, expected |-> expected,
     actual |-> actual, details |-> details]

\* sorted(findings, key=lambda e: e.severity): the stable sort of Python,
\* which compares the keys with < only; a finding is placed before the first
\* of the findings already sorted whose severity it is less than
RECURSIVE InsertBySeverity(_, _)
InsertBySeverity(e, done) ==
    IF done = <<>> THEN <<e>>
    ELSE IF SeverityLt(e.severity, Head(done).severity) THEN <<e>> \o done
    ELSE <<Head(done)>> \o InsertBySeverity(e, Tail(done))

RECURSIVE SortedBySeverity(_)
SortedBySeverity(findings) ==
    IF findings = <<>> THEN <<>>
    ELSE InsertBySeverity(findings[Len(findings)],
                          SortedBySeverity(SubSeq(findings, 1, Len(findings) - 1)))

\* @dataclass ValidationResult; duration_seconds defaults to 0.0
ValidationResult(category, passed, errors, warnings, info) ==
    [category |-> category, passed |-> passed, errors |-> errors,
     warnings |-> warnings, info |-> info, duration_seconds |-> 0]

\* Python all(r.passed for r in results): iterate, stop at the first falsy element
RECURSIVE AllPassed(_)
AllPassed(results) ==
    IF results = <<>> THEN TRUE
    ELSE IF ~Head(results).passed THEN FALSE
    ELSE AllPassed(Tail(results))

\* a faulty variant of ValidationReport.passed: any() in place of all()
ReportPassed_any(rep) ==
    rep.results = <<>> \/ \E k \in 1..Len(rep.results) : rep.results[k].passed

\* ValidationReport.passed (a property: computed from results on each read)
ReportPassed(rep) == AllPassed(rep.results)

\* ValidationReport.total_checks
TotalChecks(rep) == Len(rep.results)

\* ValidationReport.passed_checks
PassedChecks(rep) == Len(SelectSeq(rep.results, LAMBDA r : r.passed))

\* ValidationReport.failed_checks
FailedChecks(rep) == TotalChecks(rep) - PassedChecks(rep)

\* @dataclass ValidationReport as built by ValidationRunner.run
\* (manifest_path and data_quality keep their defaults)
ValidationReport(timestamp, data_file, row_count, column_count, results, duration_seconds) ==
    [timestamp |-> timestamp, manifest_path |-> "", data_file |-> data_file,
     row_count |-> row_count, column_count |-> column_count, results |-> results,
     duration_seconds |-> duration_seconds]

(***************************************************************************)
(* Python dict: an insertion-ordered sequence of <<key, value>> pairs with *)
(* distinct keys.                                                          *)
(***************************************************************************)
HasKey(d, k) == \E i \in 1..Len(d) : d[i][1] = k

\* d[k] for a key that is present
Lookup(d, k) == d[CHOOSE i \in 1..Len(d) : d[i][1] = k][2]

\* d.get(k, default)
Get(d, k, default) == IF HasKey(d, k) THEN Lookup(d, k) ELSE default

(***************************************************************************)
(* validate/manifest.py                                                    *)
(***************************************************************************)
\* @dataclass ColumnConfig
ColumnConfig(name, required, type, aliases) ==
    [name |-> name, required |-> required, type |-> type, aliases |-> aliases]

\* @dataclass ConstraintConfig
ConstraintConfig(type, pattern, min_length, max_length, strip_chars, allow_empty, allow_special_values, severity) ==
    [type |-> type, pattern |-> pattern, min_length |-> min_length,
     max_length |-> max_length, strip_chars |-> strip_chars,
     allow_empty |-> allow_empty, allow_special_values |-> allow_special_values,
     severity |-> severity]

\* @dataclass VocabConfig
VocabConfig(values, case_sensitive, allow_null, severity) ==
    [values |-> values, case_sensitive |-> case_sensitive,
     allow_null |-> allow_null, severity |-> severity]

\* @dataclass GeoConfig: the fields load_manifest passes, the others at their
\* defaults.  The class declares no attribute named bounds.
GeoConfig(lat_field, lon_field, brazil_lat_min, brazil_lat_max, brazil_lon_min, brazil_lon_max, check_duplicates, id_column) ==
    [lat_field |-> lat_field, lon_field |-> lon_field,
     lat_min |-> -9000, lat_max |-> 9000, lon_min |-> -18000, lon_max |-> 18000,
     brazil_lat_min |-> brazil_lat_min, brazil_lat_max |-> brazil_lat_max,
     brazil_lon_min |-> brazil_lon_min, brazil_lon_max |-> brazil_lon_max,
     check_duplicates |-> check_duplicates, id_column |-> id_column]

\* @dataclass CrossFieldConfig
CrossFieldConfig(description, field_a, field_b, mapping_file, rule, tolerance, severity) ==
    [description |-> description, field_a |-> field_a, field_b |-> field_b,
     mapping_file |-> mapping_file, rule |-> rule, tolerance |-> tolerance,
     severity |-> severity]

\* @dataclass ManifestConfig: ManifestConfig(input_file=..., source_type=...,
\* sheet_name=..., reports_dir=...), every other field at its default
ManifestConfig(input_file, source_type, sheet_name, reports_dir) ==
    [input_file |-> input_file, source_type |-> source_type,
     sheet_name |-> sheet_name, columns |-> <<>>, constraints |-> <<>>,
     controlled_vocab |-> <<>>, geospatial |-> None, cross_field |-> <<>>,
     uniqueness_columns |-> <<>>, missingness |-> <<>>,
     reports_dir |-> reports_dir, fu_to_state |-> <<>>, fu_to_region |-> <<>>]

\* ManifestConfig.geo_config
geo_config(config) == config.geospatial

\* ManifestConfig.primary_keys
primary_keys(config) == config.uniqueness_columns

\* ManifestConfig.composite_keys
composite_keys(config) == <<>>

\* ManifestConfig.expected_hash
expected_hash(config) == None

\* ManifestConfig.expected_rows
expected_rows(config) == None

\* ManifestConfig.expected_columns
expected_columns(config) ==
    IF config.columns # <<>>
    THEN Some([i \in 1..Len(config.columns) |-> config.columns[i].name])
    ELSE None

\* ManifestConfig.perf_thresholds
perf_thresholds(config) == None

\* the for-loops of load_manifest: one dataclass per entry of a section
ParseColumns(expected) ==
    [i \in 1..Len(expected) |->
        ColumnConfig(Get(expected[i], "name", ""), Get(expected[i], "required", TRUE),
                     Get(expected[i], "type", "string"), Get(expected[i], "aliases", <<>>))]

ParseConstraints(section) ==
    [i \in 1..Len(section) |->
        <<section[i][1],
          ConstraintConfig(Get(section[i][2], "type", "string"),
                           Get(section[i][2], "pattern", None),
                           Get(section[i][2], "min_length", None),
                           Get(section[i][2], "max_length", None),
                           Get(section[i][2], "strip_chars", None),
                           Get(section[i][2], "allow_empty", FALSE),
                           Get(section[i][2], "allow_special_values", <<>>),
                           Get(section[i][2], "severity", "MAJOR"))>>]

ParseVocab(section) ==
    [i \in 1..Len(section) |->
        <<section[i][1],
          VocabConfig(Get(section[i][2], "values", <<>>),
                      Get(section[i][2], "case_sensitive", TRUE),
                      Get(section[i][2], "allow_null", FALSE),
                      Get(section[i][2], "severity", "MAJOR"))>>]

ParseGeo(geo_data) ==
    IF geo_data # <<>>
    THEN LET plausible == Get(geo_data, "plausible_bounds", <<>>)
             dup == Get(geo_data, "duplicate_coords", <<>>)
         IN  Some(GeoConfig(Get(geo_data, "lat_field", "Lat"),
                            Get(geo_data, "lon_field", "Lon"),
                            Get(plausible, "lat_min", -5500),
                            Get(plausible, "lat_max", 1000),
                            Get(plausible, "lon_min", -8000),
                            Get(plausible, "lon_max", -3000),
                            Get(dup, "check", TRUE),
                            Get(dup, "id_column", "CNES")))
    ELSE None

ParseCrossField(section) ==
    [i \in 1..Len(section) |->
        <<section[i][1],
          CrossFieldConfig(Get(section[i][2], "description", ""),
                           Get(section[i][2], "field_a", ""),
                           Get(section[i][2], "field_b", ""),
                           Get(section[i][2], "mapping_file", None),
                           Get(section[i][2], "rule", None),
                           Get(section[i][2], "tolerance", 0),
                           Get(section[i][2], "severity", "MAJOR"))>>]

\* load_manifest for a manifest file that exists and parses to the mapping
\* data; mappings.fu_to_state / mappings.fu_to_region are the contents of the
\* optional mappings/*.yaml files next to it (<<>> when a file is absent)
load_manifest(data, mappings) ==
    LET input == Get(data, "input", <<>>)
        base == ManifestConfig(Get(input, "file_path", ""),
                               Get(input, "source_type", "excel"),
                               Get(input, "sheet_name", None),
                               Get(Get(data, "output", <<>>), "reports_dir", "reports"))
    IN  [base EXCEPT
            !.columns = ParseColumns(Get(Get(data, "columns", <<>>), "expected", <<>>)),
            !.constraints = ParseConstraints(Get(data, "constraints", <<>>)),
            !.controlled_vocab = ParseVocab(Get(data, "controlled_vocab", <<>>)),
            !.geospatial = ParseGeo(Get(data, "geospatial", <<>>)),
            !.cross_field = ParseCrossField(Get(data, "cross_field", <<>>)),
            !.uniqueness_columns =
                Get(Get(Get(data, "uniqueness", <<>>), "primary_key", <<>>),
                    "columns", <<"CNES">>),
            !.missingness = Get(Get(data, "missingness", <<>>), "per_field", <<>>),
            !.fu_to_state = mappings.fu_to_state,
            !.fu_to_region = mappings.fu_to_region]

(***************************************************************************)
(* pandas: the DataFrame operations the checks use.                        *)
(***************************************************************************)
NaN == [k |-> "nan", n |-> 0, s |-> ""]
Num(n) == [k |-> "num", n |-> n, s |-> ""]
Str(s) == [k |-> "str", n |-> 0, s |-> s]

DataFrame(columns, rows) == [columns |-> columns, rows |-> rows]

\* len(df)
NRows(df) == Len(df.rows)

\* len(df.columns)
NCols(df) == Len(df.columns)

\* col in df.columns
HasColumn(df, col) == col \in Range(df.columns)

\* pd.isna(val)
isna(cell) == cell.k = "nan"

\* df[col], as the sequence of its cells in row order
Column(df, col) == [i \in 1..NRows(df) |-> df.rows[i][col]]

\* the index label of the i-th row (default RangeIndex)
Idx(i) == i - 1

\* float(s) / pd.to_numeric(s, errors='coerce') for the strings of the model:
\* Some(value in hundredths) when s is a number literal, None otherwise
FloatOfStr(s) ==
    CASE s = "-23.5" -> Some(-2350)
      [] s = "-46.6" -> Some(-4660)
      [] s = "95.0" -> Some(9500)
      [] OTHER -> None

\* float(val) for a non-null cell: None stands for ValueError / TypeError
ToFloat(cell) == IF cell.k = "num" THEN Some(cell.n) ELSE FloatOfStr(cell.s)

\* str(df[col].dtype): a column with a string cell, or with no cell at all, is
\* object; a column of numbers and NaN is float64
Dtype(df, col) ==
    IF NRows(df) = 0 \/ \E i \in 1..NRows(df) : df.rows[i][col].k = "str"
    THEN "object" ELSE "float64"

\* ascending insertion sort of a sequence of integers
RECURSIVE InsertSorted(_, _)
InsertSorted(x, s) ==
    IF s = <<>> THEN <<x>>
    ELSE IF x <= Head(s) THEN <<x>> \o s
    ELSE <<Head(s)>> \o InsertSorted(x, Tail(s))

RECURSIVE SortInts(_)
SortInts(s) == IF s = <<>> THEN <<>> ELSE InsertSorted(Head(s), SortInts(Tail(s)))

\* 4 * Series.quantile(q4 / 4) of a non-empty sequence of integers (linear
\* interpolation between the two nearest order statistics)
Quantile4(values, q4) ==
    LET sorted == SortInts(values)
        pos4 == (Len(values) - 1) * q4
        lo == (pos4 \div 4) + 1
        frac4 == pos4 % 4
        hi == IF frac4 = 0 THEN lo ELSE lo + 1
    IN  4 * sorted[lo] + frac4 * (sorted[hi] - sorted[lo])

(***************************************************************************)
(* Python str operations, tabulated over the strings of the model: every   *)
(* string not listed is its own image (it has no surrounding whitespace,   *)
(* no upper-case letter).                                                  *)
(***************************************************************************)
\* s.strip()
Strip(s) ==
    CASE s = " North" -> "North"
      [] s = "1234567 " -> "1234567"
      [] s = " " -> ""
      [] OTHER -> s

\* s.lower()
Lower(s) ==
    CASE s = "North" -> "north"
      [] s = " North" -> " north"
      [] s = "South" -> "south"
      [] s = "Norte" -> "norte"
      [] s = "AC" -> "ac"
      [] s = "SP" -> "sp"
      [] s = "Acre" -> "acre"
      [] s = "Bahia" -> "bahia"
      [] s = "Not informed" -> "not informed"
      [] s = "Sem contato" -> "sem contato"
      [] OTHER -> s

\* str(x) of a float, for the numbers of the model
StrOfNum(n) ==
    CASE n = -2350 -> "-23.5"
      [] n = -4660 -> "-46.6"
      [] n = -2300 -> "-23.0"
      [] n = -4600 -> "-46.0"
      [] n = 9500 -> "95.0"
      [] n = 0 -> "0.0"
      [] OTHER -> "<float>"

\* str(val) of a cell
StrOf(cell) ==
    IF cell.k = "str" THEN cell.s
    ELSE IF cell.k = "nan" THEN "nan"
    ELSE StrOfNum(cell.n)

\* str(val).replace(',', '.')
ReplaceCommaDot(s) ==
    CASE s = "-23,5" -> "-23.5"
      [] OTHER -> s

\* re.sub(r'\s+', '', s): every whitespace character removed
RemoveWhitespace(s) ==
    CASE s = "Not informed" -> "Notinformed"
      [] s = "Sem contato" -> "Semcontato"
      [] s = "1234567 " -> "1234567"
      [] s = " North" -> "North"
      [] s = " " -> ""
      [] s = "(11) 5555-1234" -> "(11)5555-1234"
      [] s = "a, b" -> "a,b"
      [] OTHER -> s

\* the names of the special characters of ParsingCheck._check_unicode that
\* occur in s ("Acre_" stands for "Acre" followed by a no-break space)
SpecialCharsIn(s) ==
    CASE s = "Acre_" -> <<"NBSP">>
      [] OTHER -> <<>>

\* the patterns of the model
CNES_PATTERN == "^\\d{6,8}$"
TELEFONE_PATTERN == "^[\\d\\s\\-\\(\\)\\/\\+]+$"
UF_PATTERN == "^[A-Z]{2}$"

\* re.match(pattern, s) is not None
RegexMatch(pattern, s) ==
    CASE pattern = CNES_PATTERN -> s \in {"1234567", "7654321"}
      [] pattern = TELEFONE_PATTERN -> s \in {"(11) 5555-1234", "1234567", "7654321", "12345"}
      [] pattern = UF_PATTERN -> s \in {"AC", "SP", "XX"}
      [] OTHER -> FALSE

\* s.strip(chars) for a set of whitespace characters
StripChars(s, chars) == Strip(s)

\* len([item.strip() for item in s.split(',') if item.strip()])
CommaItems(s) ==
    CASE s = "a, b" -> 2
      [] s = "" -> 0
      [] s = " " -> 0
      [] OTHER -> 1

\* the positions of the first occurrence of each distinct element of s
FirstOccurrences(s) ==
    SelectSeq(Indices(Len(s)), LAMBDA j : \A k \in 1..(j - 1) : s[k] # s[j])

\* the (value, count) items of a counting dict filled in the order of s
CountItems(s) ==
    LET first == FirstOccurrences(s)
    IN  [j \in 1..Len(first) |->
            <<s[first[j]], Cardinality({k \in 1..Len(s) : s[k] = s[first[j]]})>>]

\* sorted(items, key=lambda x: -x[1]): stable, by descending count
RECURSIVE InsertByCount(_, _)
InsertByCount(x, s) ==
    IF s = <<>> THEN <<x>>
    ELSE IF x[2] >= Head(s)[2] THEN <<x>> \o s
    ELSE <<Head(s)>> \o InsertByCount(x, Tail(s))

RECURSIVE SortByCountDesc(_)
SortByCountDesc(items) ==
    IF items = <<>> THEN <<>>
    ELSE InsertByCount(Head(items), SortByCountDesc(Tail(items)))

(***************************************************************************)
(* The outcome of calling a check's run: it returns a result or raises,    *)
(* and leaves the DataFrame object it was handed in some state.            *)
(***************************************************************************)
NoResult == [none |-> TRUE]
Returned(result, df) == [exc |-> "", result |-> result, df |-> df]
Raised(exc, df) == [exc |-> exc, result |-> NoResult, df |-> df]

(***************************************************************************)
(* validate/checks/base.py                                                 *)
(***************************************************************************)
\* BaseCheck.create_error: the finding carries the check's name as category
create_error(name, severity, message, row_indices, column, expected, actual, details) ==
    ValidationError(severity, name, message, row_indices, column, expected, actual, details)

\* a faulty variant of timed_run: it rebuilds the result and loses the warnings
timed_run_rebuild(outcome, elapsed) ==
    IF outcome.exc # "" THEN outcome
    ELSE [outcome EXCEPT !.result.duration_seconds = elapsed, !.result.warnings = <<>>]

\* BaseCheck.timed_run applied to the outcome of self.run(df, config); elapsed
\* is time.time() - start.  An exception of run propagates.
timed_run(outcome, elapsed) ==
    IF outcome.exc # "" THEN outcome
    ELSE [outcome EXCEPT !.result.duration_seconds = elapsed]

(***************************************************************************)
(* validate/checks/geospatial.py                                           *)
(***************************************************************************)
\* GeospatialCheck.BRAZIL_BOUNDS
BRAZIL_BOUNDS ==
    << <<"lat_min", -3375>>, <<"lat_max", 527>>, <<"lon_min", -7399>>, <<"lon_max", -3239>> >>

\* GeospatialCheck._find_column: the first candidate that is a column, or None
geo_find_column(df, candidates) ==
    LET hits == SelectSeq(candidates, LAMBDA c : HasColumn(df, c))
    IN  IF hits = <<>> THEN None ELSE Some(Head(hits))

\* GeospatialCheck._get_bounds: with a GeoConfig present the expression
\* config.geo_config.bounds is evaluated, and GeoConfig has no such attribute
geo_get_bounds(config) ==
    IF ~geo_config(config).isNone
    THEN [exc |-> "AttributeError", value |-> <<>>]
    ELSE [exc |-> "", value |-> BRAZIL_BOUNDS]

\* GeospatialCheck._validate_bounds
geo_validate_bounds(df, lat_col, lon_col, bounds) ==
    LET lat_min == Get(bounds, "lat_min", -9000)
        lat_max == Get(bounds, "lat_max", 9000)
        lon_min == Get(bounds, "lon_min", -18000)
        lon_max == Get(bounds, "lon_max", 18000)
        lat(i) == df.rows[i][lat_col]
        lon(i) == df.rows[i][lon_col]
        skipped(i) == isna(lat(i)) \/ isna(lon(i))
        unparsable(i) == ToFloat(lat(i)).isNone \/ ToFloat(lon(i)).isNone
        lat_out(i) == ToFloat(lat(i)).v < lat_min \/ ToFloat(lat(i)).v > lat_max
        lon_out(i) == ToFloat(lon(i)).v < lon_min \/ ToFloat(lon(i)).v > lon_max
        checked == SelectSeq(Indices(NRows(df)), LAMBDA i : ~skipped(i))
        out_rows == SelectSeq(checked,
                        LAMBDA i : unparsable(i) \/ lat_out(i) \/ lon_out(i))
        lat_rows == SelectSeq(checked, LAMBDA i : ~unparsable(i) /\ lat_out(i))
        lon_rows == SelectSeq(checked, LAMBDA i : ~unparsable(i) /\ lon_out(i))
        out_of_bounds_indices == [j \in 1..Len(out_rows) |-> Idx(out_rows[j])]
        lat_violations ==
            [j \in 1..Len(lat_rows) |->
                [idx |-> Idx(lat_rows[j]), value |-> ToFloat(lat(lat_rows[j])).v,
                 expected |-> <<lat_min, lat_max>>]]
        lon_violations ==
            [j \in 1..Len(lon_rows) |->
                [idx |-> Idx(lon_rows[j]), value |-> ToFloat(lon(lon_rows[j])).v,
                 expected |-> <<lon_min, lon_max>>]]
        severity == IF Len(out_of_bounds_indices) > 10
                    THEN "Severity.MAJOR" ELSE "Severity.MINOR"
    IN  [errors |->
            IF out_of_bounds_indices # <<>>
            THEN << create_error("geospatial", severity,
                        <<"Coordenadas fora dos limites (%d registros)",
                          Len(out_of_bounds_indices)>>,
                        Some(Take(out_of_bounds_indices, 50)), None, None, None,
                        Some([total |-> Len(out_of_bounds_indices),
                              bounds |-> bounds,
                              lat_violations |-> Len(lat_violations),
                              lon_violations |-> Len(lon_violations),
                              sample_violations |->
                                  Take(lat_violations, 5) \o Take(lon_violations, 5)])) >>
            ELSE <<>>,
         warnings |-> <<>>]

\* GeospatialCheck._validate_nulls
geo_validate_nulls(df, lat_col, lon_col) ==
    LET rows == Indices(NRows(df))
        null_lat == Len(SelectSeq(rows, LAMBDA i : isna(df.rows[i][lat_col])))
        null_lon == Len(SelectSeq(rows, LAMBDA i : isna(df.rows[i][lon_col])))
        null_rows == SelectSeq(rows,
                        LAMBDA i : isna(df.rows[i][lat_col]) \/ isna(df.rows[i][lon_col]))
        null_indices == [j \in 1..Len(null_rows) |-> Idx(null_rows[j])]
        \* len(null_indices) > len(df) * 0.05
        severity == IF 20 * Len(null_indices) > NRows(df)
                    THEN "Severity.MAJOR" ELSE "Severity.MINOR"
    IN  [warnings |->
            IF null_lat > 0 \/ null_lon > 0
            THEN << create_error("geospatial", severity,
                        <<"Coordenadas nulas: %d Lat, %d Lon", null_lat, null_lon>>,
                        Some(Take(null_indices, 50)), None, None, None,
                        Some([null_lat |-> null_lat, null_lon |-> null_lon,
                              \* round(x * 100, 2) in hundredths of a percent
                              percent |-> ((null_lat + null_lon) * 10000 + NRows(df))
                                              \div (NRows(df) * 2)])) >>
            ELSE <<>>,
         info |-> <<>>]

\* GeospatialCheck._detect_duplicate_coordinates
geo_detect_duplicate_coordinates(df, lat_col, lon_col) ==
    LET rows == SelectSeq(Indices(NRows(df)),
                    LAMBDA i : ~isna(df.rows[i][lat_col]) /\ ~isna(df.rows[i][lon_col]))
        coord(i) == <<df.rows[i][lat_col], df.rows[i][lon_col]>>
        duplicates == SelectSeq(rows,
                        LAMBDA i : \E j \in Range(rows) : j # i /\ coord(j) = coord(i))
        locations == {coord(i) : i \in Range(duplicates)}
    IN  [warnings |-> <<>>,
         info |->
            IF Len(duplicates) > 0 /\ Cardinality(locations) > 0
            THEN << create_error("geospatial", "Severity.INFO",
                        <<"Coordenadas duplicadas: %d registros em %d localizacoes unicas",
                          Len(duplicates), Cardinality(locations)>>,
                        None, None, None, None,
                        Some([total_duplicates |-> Len(duplicates),
                              unique_locations |-> Cardinality(locations)])) >>
            ELSE <<>>]

\* GeospatialCheck._detect_outliers (IQR x 3 on each coordinate column)
geo_detect_outliers(df, lat_col, lon_col) ==
    LET numeric(col, i) ==
            IF isna(df.rows[i][col]) THEN None ELSE ToFloat(df.rows[i][col])
        col_rows(col) == SelectSeq(Indices(NRows(df)), LAMBDA i : ~numeric(col, i).isNone)
        values(col) == [j \in 1..Len(col_rows(col)) |-> numeric(col, col_rows(col)[j]).v]
        \* all quantities scaled by 4 to stay in the integers
        q1(col) == Quantile4(values(col), 1)
        q3(col) == Quantile4(values(col), 3)
        lower(col) == q1(col) - 3 * (q3(col) - q1(col))
        upper(col) == q3(col) + 3 * (q3(col) - q1(col))
        col_outliers(col) ==
            IF Len(values(col)) < 10 THEN {}
            ELSE {i \in Range(col_rows(col)) :
                    4 * numeric(col, i).v < lower(col) \/ 4 * numeric(col, i).v > upper(col)}
        outlier_rows == col_outliers(lat_col) \cup col_outliers(lon_col)
        \* list(set(...)) of small non-negative integers iterates in ascending order
        outlier_indices == [j \in 1..Cardinality(outlier_rows) |->
                                CHOOSE i \in outlier_rows :
                                    Cardinality({k \in outlier_rows : k < i}) = j - 1]
    IN  [warnings |->
            IF outlier_rows # {}
            THEN << create_error("geospatial", "Severity.MINOR",
                        <<"Possiveis outliers detectados (IQRx3): %d registros",
                          Cardinality(outlier_rows)>>,
                        Some(Take([j \in 1..Len(outlier_indices) |-> Idx(outlier_indices[j])], 30)),
                        None, None, None,
                        Some([total_outliers |-> Cardinality(outlier_rows)])) >>
            ELSE <<>>]

\* GeospatialCheck._detect_suspicious
geo_detect_suspicious(df, lat_col, lon_col) ==
    LET lat(i) == df.rows[i][lat_col]
        lon(i) == df.rows[i][lon_col]
        usable(i) == /\ ~isna(lat(i)) /\ ~isna(lon(i))
                     /\ ~ToFloat(lat(i)).isNone /\ ~ToFloat(lon(i)).isNone
        suspicious(i) ==
            /\ usable(i)
            /\ \/ ToFloat(lat(i)).v = 0 /\ ToFloat(lon(i)).v = 0
               \* lat == int(lat) and lon == int(lon)
               \/ ToFloat(lat(i)).v % 100 = 0 /\ ToFloat(lon(i)).v % 100 = 0
        rows == SelectSeq(Indices(NRows(df)), suspicious)
        suspicious_indices == [j \in 1..Len(rows) |-> Idx(rows[j])]
    IN  [errors |->
            IF suspicious_indices # <<>>
            THEN << create_error("geospatial", "Severity.MINOR",
                        <<"Coordenadas suspeitas (0,0 ou valores inteiros): %d registros",
                          Len(suspicious_indices)>>,
                        Some(Take(suspicious_indices, 30)), None, None, None,
                        Some([total_suspicious |-> Len(suspicious_indices)])) >>
            ELSE <<>>]

\* GeospatialCheck.run
GeospatialCheck_run(df, config) ==
    LET lat_col == geo_find_column(df, <<"Lat", "lat", "latitude", "Latitude">>)
        lon_col == geo_find_column(df, <<"Lon", "lon", "longitude", "Longitude", "Lng", "lng">>)
        bounds == geo_get_bounds(config)
        out_of_bounds_result == geo_validate_bounds(df, lat_col.v, lon_col.v, bounds.value)
        null_result == geo_validate_nulls(df, lat_col.v, lon_col.v)
        duplicate_result == geo_detect_duplicate_coordinates(df, lat_col.v, lon_col.v)
        outlier_result == geo_detect_outliers(df, lat_col.v, lon_col.v)
        suspicious_result == geo_detect_suspicious(df, lat_col.v, lon_col.v)
        errors == out_of_bounds_result.errors \o suspicious_result.errors
        warnings == out_of_bounds_result.warnings \o null_result.warnings
                        \o duplicate_result.warnings \o outlier_result.warnings
        info == null_result.info \o duplicate_result.info
    IN  IF lat_col.isNone \/ lon_col.isNone
        THEN Returned(ValidationResult("geospatial", TRUE, <<>>, <<>>,
                << create_error("geospatial", "Severity.INFO",
                       <<"Colunas de coordenadas nao encontradas">>,
                       None, None, None, None, None) >>), df)
        ELSE IF bounds.exc # "" THEN Raised(bounds.exc, df)
        ELSE Returned(ValidationResult("geospatial", Len(errors) = 0,
                                       errors, warnings, info), df)

(***************************************************************************)
(* validate/checks/vocab.py                                                *)
(***************************************************************************)
\* VocabCheck._check_vocabulary; exc is KeyError when a finding has to be
\* created and Severity[vocab_config.severity] does not resolve
vocab_check_vocabulary(df, col_name, vocab_config) ==
    LET allowed_values ==
            IF vocab_config.case_sensitive THEN Range(vocab_config.values)
            ELSE {Lower(v) : v \in Range(vocab_config.values)}
        val(i) == df.rows[i][col_name]
        val_str(i) == IF isna(val(i)) THEN StrOf(val(i)) ELSE Strip(StrOf(val(i)))
        check_val(i) == IF vocab_config.case_sensitive THEN val_str(i) ELSE Lower(val_str(i))
        invalid(i) == IF isna(val(i)) THEN ~vocab_config.allow_null
                      ELSE check_val(i) \notin allowed_values
        rows == SelectSeq(Indices(NRows(df)), invalid)
        invalid_indices == [j \in 1..Len(rows) |-> Idx(rows[j])]
        invalid_values == CountItems([j \in 1..Len(rows) |-> val_str(rows[j])])
        sorted_invalid == SortByCountDesc(invalid_values)
    IN  IF invalid_indices = <<>> THEN [exc |-> "", value |-> <<>>]
        ELSE IF vocab_config.severity \notin SeverityMembers
        THEN [exc |-> "KeyError", value |-> <<>>]
        ELSE [exc |-> "",
              value |->
                << create_error("vocab", SeverityOf(vocab_config.severity),
                       <<"'%s' contem %d valores fora do vocabulario",
                         col_name, Len(invalid_indices)>>,
                       Some(Take(invalid_indices, 50)), Some(col_name),
                       Some(Take(vocab_config.values, 10)),
                       Some(Take(sorted_invalid, 10)),
                       Some([total_invalid |-> Len(invalid_indices),
                             unique_invalid |-> Len(invalid_values),
                             invalid_values |-> Take(sorted_invalid, 20)])) >>]

\* one iteration of the loop of VocabCheck.run over config.controlled_vocab:
\* the bucket the entry's findings are added to, or the exception raised by
\* _check_vocabulary or by Severity[vocab_config.severity]
vocab_entry(df, col_name, vocab_config) ==
    LET result == vocab_check_vocabulary(df, col_name, vocab_config)
    IN  IF ~HasColumn(df, col_name) THEN [exc |-> "", bucket |-> "info", value |-> <<>>]
        ELSE IF result.exc # "" THEN [exc |-> result.exc, bucket |-> "", value |-> <<>>]
        ELSE IF vocab_config.severity \notin SeverityMembers
        THEN [exc |-> "KeyError", bucket |-> "", value |-> <<>>]
        ELSE [exc |-> "",
              bucket |-> CASE vocab_config.severity = "BLOCKER" -> "errors"
                           [] vocab_config.severity = "MAJOR" -> "errors"
                           [] vocab_config.severity = "MINOR" -> "warnings"
                           [] OTHER -> "info",
              value |-> result.value]

\* VocabCheck.run
VocabCheck_run(df, config) ==
    LET entries == [i \in 1..Len(config.controlled_vocab) |->
                        vocab_entry(df, config.controlled_vocab[i][1],
                                    config.controlled_vocab[i][2])]
        bucket(b) == Flatten([i \in 1..Len(entries) |->
                                IF entries[i].bucket = b THEN entries[i].value ELSE <<>>])
        errors == bucket("errors")
    IN  IF \E i \in 1..Len(entries) : entries[i].exc # ""
        THEN Raised(entries[CHOOSE i \in 1..Len(entries) :
                                /\ entries[i].exc # ""
                                /\ \A k \in 1..(i - 1) : entries[k].exc = ""].exc, df)
        ELSE Returned(ValidationResult("vocab", Len(errors) = 0, errors,
                                       bucket("warnings"), bucket("info")), df)

(***************************************************************************)
(* validate/checks/perf.py                                                 *)
(***************************************************************************)
\* PerfCheck.DEFAULT_THRESHOLDS (memory in MB, rows)
DEFAULT_THRESHOLDS ==
    [memory_warn_mb |-> 500, memory_error_mb |-> 2000, row_threshold |-> 1000000]

\* PerfCheck._get_thresholds: config.perf_thresholds is None for every config
perf_get_thresholds(config) ==
    IF perf_thresholds(config).isNone THEN DEFAULT_THRESHOLDS
    ELSE perf_thresholds(config).v

\* df.memory_usage(deep=True) of one column, in bytes: 8 per float cell, the
\* pointer and the string object per object cell
ColumnBytes(df, col) ==
    IF Dtype(df, col) = "float64" THEN 8 * NRows(df) ELSE 64 * NRows(df)

\* df.memory_usage(deep=True).sum(): the RangeIndex and the columns
MemoryBytes(df) ==
    LET RECURSIVE Sum(_)
        Sum(cols) == IF cols = <<>> THEN 0
                     ELSE ColumnBytes(df, Head(cols)) + Sum(Tail(cols))
    IN  128 + Sum(df.columns)

\* PerfCheck._check_memory (memory_mb compared as bytes against MB * 1024 * 1024)
perf_check_memory(df, config) ==
    LET memory_bytes == MemoryBytes(df)
        thresholds == perf_get_thresholds(config)
        per_column == [i \in 1..NCols(df) |-> <<df.columns[i], ColumnBytes(df, df.columns[i])>>]
        breakdown == create_error("perf", "Severity.INFO",
                        <<"Breakdown de memoria por coluna">>, None, None, None, None,
                        Some([per_column_bytes |-> per_column]))
    IN  IF memory_bytes > thresholds.memory_error_mb * 1024 * 1024
        THEN [errors |-> << create_error("perf", "Severity.BLOCKER",
                                <<"Uso de memoria muito alto: %f MB", memory_bytes>>,
                                None, None, None, None,
                                Some([memory_bytes |-> memory_bytes,
                                      threshold_mb |-> thresholds.memory_error_mb])) >>,
              warnings |-> <<>>, info |-> <<breakdown>>]
        ELSE IF memory_bytes > thresholds.memory_warn_mb * 1024 * 1024
        THEN [errors |-> <<>>,
              warnings |-> << create_error("perf", "Severity.MINOR",
                                <<"Uso de memoria elevado: %f MB", memory_bytes>>,
                                None, None, None, None,
                                Some([memory_bytes |-> memory_bytes,
                                      threshold_mb |-> thresholds.memory_warn_mb])) >>,
              info |-> <<breakdown>>]
        ELSE [errors |-> <<>>, warnings |-> <<>>,
              info |-> << create_error("perf", "Severity.INFO",
                                <<"Uso de memoria: %f MB", memory_bytes>>,
                                None, None, None, None,
                                Some([memory_bytes |-> memory_bytes])),
                          breakdown >>]

\* PerfCheck._check_size
perf_check_size(df, config) ==
    LET thresholds == perf_get_thresholds(config)
    IN  [warnings |->
            IF NRows(df) > thresholds.row_threshold
            THEN << create_error("perf", "Severity.MINOR",
                        <<"Dataset grande: %d linhas", NRows(df)>>,
                        None, None, None, None,
                        Some([rows |-> NRows(df), threshold |-> thresholds.row_threshold])) >>
            ELSE <<>>,
         info |-> << create_error("perf", "Severity.INFO",
                        <<"Tamanho do dataset: %d linhas x %d colunas", NRows(df), NCols(df)>>,
                        None, None, None, None,
                        Some([rows |-> NRows(df), columns |-> NCols(df),
                              total_cells |-> NRows(df) * NCols(df)])) >>]

\* PerfCheck._benchmark_basic_ops; clock is what time.perf_counter measured.
\*  - the filter indexes df with the bare value True when the frame has a
\*    Region column and no rows: KeyError
\*  - the sort reads df.columns[0]: IndexError when the frame has no column
perf_benchmark_basic_ops(df, clock) ==
    LET timings ==
            << <<"iterate_100_rows", clock>> >>
            \o (IF HasColumn(df, "Region") THEN << <<"filter_by_region", clock>> >> ELSE <<>>)
            \o (IF HasColumn(df, "FU") THEN << <<"groupby_fu", clock>> >> ELSE <<>>)
            \o << <<"sort_first_column", clock>> >>
    IN  IF HasColumn(df, "Region") /\ ~(NRows(df) > 0)
        THEN [exc |-> "KeyError", info |-> <<>>]
        ELSE IF NCols(df) = 0
        THEN [exc |-> "IndexError", info |-> <<>>]
        ELSE [exc |-> "",
              info |-> << create_error("perf", "Severity.INFO",
                              <<"Benchmark de operacoes basicas">>,
                              None, None, None, None,
                              Some([timings_seconds |-> timings])) >>]

\* PerfCheck.run
PerfCheck_run(df, config, clock) ==
    LET memory_result == perf_check_memory(df, config)
        size_result == perf_check_size(df, config)
        ops_result == perf_benchmark_basic_ops(df, clock)
        errors == memory_result.errors
        warnings == memory_result.warnings \o size_result.warnings
        info == memory_result.info \o size_result.info \o ops_result.info
    IN  IF ops_result.exc # "" THEN Raised(ops_result.exc, df)
        ELSE Returned(ValidationResult("perf", Len(errors) = 0, errors, warnings, info), df)

(***************************************************************************)
(* validate/checks/reproducibility.py                                      *)
(***************************************************************************)
\* ReproducibilityCheck._compute_dataset_hash: the digest of the rows sorted
\* by every column, i.e. of the columns and the multiset of rows
repro_compute_dataset_hash(df) ==
    <<"sha256", df.columns,
      {<<r, Cardinality({i \in 1..NRows(df) : df.rows[i] = r})>> : r \in Range(df.rows)}>>

\* ReproducibilityCheck._compute_stability_stats
repro_compute_stability_stats(df) ==
    LET total_cells == NRows(df) * NCols(df)
        null_cells == Cardinality({<<i, c>> \in (1..NRows(df)) \X Range(df.columns) :
                                        isna(df.rows[i][c])})
    IN  [row_count |-> NRows(df), column_count |-> NCols(df),
         total_cells |-> total_cells, null_cells |-> null_cells,
         \* numpy division: nan (None) when there is no cell
         null_percent |-> IF total_cells = 0 THEN None
                          ELSE Some((null_cells * 10000) \div total_cells),
         columns |-> df.columns,
         dtypes |-> [i \in 1..NCols(df) |-> <<df.columns[i], Dtype(df, df.columns[i])>>],
         memory_usage |-> MemoryBytes(df),
         column_hashes |-> [i \in 1..NCols(df) |->
                                <<df.columns[i], <<"md5", Column(df, df.columns[i])>> >>]]

\* ReproducibilityCheck.run; clock is datetime.now()
ReproducibilityCheck_run(df, config, clock) ==
    LET dataset_hash == repro_compute_dataset_hash(df)
        hash_info == create_error("reproducibility", "Severity.INFO",
                        <<"Hash do dataset: %s...", dataset_hash>>,
                        None, None, None, None,
                        Some([full_hash |-> dataset_hash, algorithm |-> "sha256",
                              rows |-> NRows(df), columns |-> NCols(df),
                              computed_at |-> clock]))
        hash_errors ==
            IF ~expected_hash(config).isNone /\ dataset_hash # expected_hash(config).v
            THEN << create_error("reproducibility", "Severity.BLOCKER",
                        <<"Hash do dataset nao corresponde ao esperado">>,
                        None, None, None, None,
                        Some([expected |-> expected_hash(config).v,
                              actual |-> dataset_hash])) >>
            ELSE <<>>
        diff == NRows(df) - expected_rows(config).v
        rows_errors ==
            IF ~expected_rows(config).isNone /\ NRows(df) # expected_rows(config).v
            THEN << create_error("reproducibility",
                        IF diff > 10 \/ -diff > 10 THEN "Severity.MAJOR" ELSE "Severity.MINOR",
                        <<"Numero de linhas (%d) difere do esperado (%d)",
                          NRows(df), expected_rows(config).v>>,
                        None, None, None, None,
                        Some([expected_rows |-> expected_rows(config).v,
                              actual_rows |-> NRows(df), difference |-> diff])) >>
            ELSE <<>>
        expected == expected_columns(config)
        missing_cols == Range(expected.v) \ Range(df.columns)
        extra_cols == Range(df.columns) \ Range(expected.v)
        cols_errors ==
            IF ~expected.isNone /\ missing_cols # {}
            THEN << create_error("reproducibility", "Severity.MAJOR",
                        <<"Colunas esperadas ausentes: %s", missing_cols>>,
                        None, None, None, None,
                        Some([missing_columns |-> missing_cols])) >>
            ELSE <<>>
        cols_warnings ==
            IF ~expected.isNone /\ extra_cols # {}
            THEN << create_error("reproducibility", "Severity.MINOR",
                        <<"Colunas extras nao esperadas: %s", extra_cols>>,
                        None, None, None, None,
                        Some([extra_columns |-> extra_cols])) >>
            ELSE <<>>
        stability == create_error("reproducibility", "Severity.INFO",
                        <<"Estatisticas de estabilidade calculadas">>,
                        None, None, None, None,
                        Some(repro_compute_stability_stats(df)))
        errors == hash_errors \o rows_errors \o cols_errors
    IN  Returned(ValidationResult("reproducibility", Len(errors) = 0, errors,
                                  cols_warnings, <<hash_info, stability>>), df)

(***************************************************************************)
(* validate/checks/schema.py                                               *)
(***************************************************************************)
\* the alias loop of SchemaCheck.run: the first alias, in declaration order,
\* that is a column of the frame, or None
\* a faulty variant of the alias loop of SchemaCheck.run: no break, so the
\* last alias that occurs in the frame is kept
schema_found_alias_last(df, col_config) ==
    LET hits == SelectSeq(col_config.aliases, LAMBDA a : HasColumn(df, a))
    IN  IF HasColumn(df, col_config.name) \/ hits = <<>> THEN None
        ELSE Some(hits[Len(hits)])

schema_found_alias(df, col_config) ==
    LET hits == SelectSeq(col_config.aliases, LAMBDA a : HasColumn(df, a))
    IN  IF HasColumn(df, col_config.name) \/ hits = <<>> THEN None ELSE Some(Head(hits))

\* the body of the loop of SchemaCheck.run over config.columns
schema_column(df, col_config) ==
    LET col_name == col_config.name
        found_alias == schema_found_alias(df, col_config)
        found == HasColumn(df, col_name) \/ ~found_alias.isNone
    IN  IF ~found /\ col_config.required
        THEN [errors |-> << create_error("schema", "Severity.BLOCKER",
                                <<"Coluna obrigatoria '%s' nao encontrada", col_name>>,
                                None, Some(col_name), Some(<<col_name>>), None,
                                Some([aliases_checked |-> col_config.aliases])) >>,
              info |-> <<>>]
        ELSE IF ~found /\ ~col_config.required
        THEN [errors |-> <<>>,
              info |-> << create_error("schema", "Severity.INFO",
                                <<"Coluna opcional '%s' nao encontrada", col_name>>,
                                None, Some(col_name), None, None, None) >>]
        ELSE IF ~found_alias.isNone /\ found_alias.v # ""
        THEN [errors |-> <<>>,
              info |-> << create_error("schema", "Severity.INFO",
                                <<"Coluna '%s' encontrada via alias '%s'",
                                  col_name, found_alias.v>>,
                                None, Some(col_name), None, None,
                                Some([alias_used |-> found_alias.v])) >>]
        ELSE [errors |-> <<>>, info |-> <<>>]

\* SchemaCheck._check_column_types.type_mapping.get(type, [type])
schema_expected_types(type) ==
    CASE type = "string" -> {"object", "string"}
      [] type = "float" -> {"float64", "float32", "float"}
      [] type = "int" -> {"int64", "int32", "int"}
      [] type = "bool" -> {"bool"}
      [] OTHER -> {type}

\* SchemaCheck._check_column_types
schema_check_column_types(df, config) ==
    Flatten([i \in 1..Len(config.columns) |->
        LET col_config == config.columns[i]
            actual_type == Dtype(df, col_config.name)
        IN  IF ~HasColumn(df, col_config.name) THEN <<>>
            ELSE IF actual_type \notin schema_expected_types(col_config.type)
            THEN << create_error("schema", "Severity.MINOR",
                        <<"Tipo de '%s' e '%s', esperado '%s'",
                          col_config.name, actual_type, col_config.type>>,
                        None, Some(col_config.name), Some(<<col_config.type>>),
                        Some(<<actual_type>>), None) >>
            ELSE <<>>])

\* SchemaCheck.run
SchemaCheck_run(df, config) ==
    LET per_column == [i \in 1..Len(config.columns) |-> schema_column(df, config.columns[i])]
        errors == Flatten([i \in 1..Len(per_column) |-> per_column[i].errors])
        expected_names ==
            UNION {{config.columns[i].name} \cup Range(config.columns[i].aliases) :
                        i \in 1..Len(config.columns)}
        unexpected == Range(df.columns) \ expected_names
        info == Flatten([i \in 1..Len(per_column) |-> per_column[i].info])
                \o (IF unexpected # {}
                    THEN << create_error("schema", "Severity.INFO",
                                <<"Colunas nao documentadas encontradas: %s", unexpected>>,
                                None, None, None, None,
                                Some([unexpected_columns |-> unexpected])) >>
                    ELSE <<>>)
        warnings == schema_check_column_types(df, config)
    IN  Returned(ValidationResult("schema", Len(errors) = 0, errors, warnings, info), df)

(***************************************************************************)
(* validate/checks/parsing.py                                              *)
(***************************************************************************)
\* df.select_dtypes(include=['object']).columns restricted to the columns
\* whose dropna() is not empty
parsing_object_columns(df) ==
    SelectSeq(df.columns,
        LAMBDA c : /\ Dtype(df, c) = "object"
                   /\ \E i \in 1..NRows(df) : ~isna(df.rows[i][c]))

\* ParsingCheck._check_whitespace
parsing_check_whitespace(df) ==
    SelectSeq(parsing_object_columns(df),
        LAMBDA c : \E i \in 1..NRows(df) :
            /\ ~isna(df.rows[i][c])
            /\ StrOf(df.rows[i][c]) # Strip(StrOf(df.rows[i][c])))

\* ParsingCheck._check_unicode
parsing_check_unicode(df) ==
    LET chars(c) == UNION {Range(SpecialCharsIn(StrOf(df.rows[i][c]))) :
                              i \in {k \in 1..NRows(df) : ~isna(df.rows[k][c])}}
        cols == SelectSeq(parsing_object_columns(df), LAMBDA c : chars(c) # {})
    IN  [j \in 1..Len(cols) |-> [column |-> cols[j], special_chars |-> chars(cols[j])]]

\* ParsingCheck._check_numeric_column
parsing_check_numeric_column(df, col) ==
    LET bad(i) == /\ ~isna(df.rows[i][col])
                  /\ FloatOfStr(ReplaceCommaDot(StrOf(df.rows[i][col]))).isNone
                  /\ df.rows[i][col].k = "str"
        rows == SelectSeq(Indices(NRows(df)), bad)
    IN  IF Dtype(df, col) = "float64" THEN <<>>
        ELSE [j \in 1..Len(rows) |-> Idx(rows[j])]

\* the Lat / Lon blocks of ParsingCheck.run
parsing_numeric_errors(df, col) ==
    LET issues == parsing_check_numeric_column(df, col)
    IN  IF HasColumn(df, col) /\ issues # <<>>
        THEN << create_error("parsing", "Severity.MAJOR",
                    <<"Valores nao numericos em %s (%d linhas)", col, Len(issues)>>,
                    Some(Take(issues, 50)), Some(col), None, None, None) >>
        ELSE <<>>

\* ParsingCheck.run
ParsingCheck_run(df, config) ==
    LET whitespace_issues == parsing_check_whitespace(df)
        unicode_issues == parsing_check_unicode(df)
        warnings ==
            IF whitespace_issues # <<>>
            THEN << create_error("parsing", "Severity.MINOR",
                        <<"Valores com whitespace extra em %d colunas", Len(whitespace_issues)>>,
                        None, None, None, None,
                        Some([columns |-> whitespace_issues])) >>
            ELSE <<>>
        info ==
            IF unicode_issues # <<>>
            THEN << create_error("parsing", "Severity.INFO",
                        <<"Caracteres Unicode especiais em %d colunas", Len(unicode_issues)>>,
                        None, None, None, None,
                        Some([columns |-> unicode_issues])) >>
            ELSE <<>>
        errors == parsing_numeric_errors(df, "Lat") \o parsing_numeric_errors(df, "Lon")
    IN  Returned(ValidationResult("parsing", Len(errors) = 0, errors, warnings, info), df)

(***************************************************************************)
(* validate/checks/uniqueness.py                                           *)
(***************************************************************************)
\* UniquenessCheck._get_key_columns
uniq_get_key_columns(df, config) ==
    IF primary_keys(config) # <<>> THEN primary_keys(config)
    ELSE SelectSeq(<<"CNES">>, LAMBDA k : HasColumn(df, k))

\* UniquenessCheck._validate_uniqueness
uniq_validate_uniqueness(df, column) ==
    LET rows == SelectSeq(Indices(NRows(df)), LAMBDA i : ~isna(df.rows[i][column]))
        normalized(i) == RemoveWhitespace(Strip(StrOf(df.rows[i][column])))
        value_counts == CountItems([j \in 1..Len(rows) |-> normalized(rows[j])])
        duplicates == SelectSeq(value_counts, LAMBDA vc : vc[2] > 1)
        dup_indices ==
            Flatten([d \in 1..Len(duplicates) |->
                LET hit == SelectSeq(Indices(NRows(df)),
                              LAMBDA i : (IF isna(df.rows[i][column]) THEN ""
                                          ELSE normalized(i)) = duplicates[d][1])
                IN  [j \in 1..Len(hit) |-> Idx(hit[j])]])
        RECURSIVE Total(_)
        Total(ds) == IF ds = <<>> THEN 0 ELSE Head(ds)[2] + Total(Tail(ds))
        total_dup_records == Total(duplicates)
        \* dup_percent = total_dup_records / len(df) * 100, compared exactly
        severity == IF total_dup_records * 100 > 5 * NRows(df) THEN "Severity.BLOCKER"
                    ELSE IF total_dup_records * 100 > NRows(df) THEN "Severity.MAJOR"
                    ELSE "Severity.MINOR"
    IN  IF rows = <<>>
        THEN [errors |-> <<>>, warnings |-> <<>>,
              info |-> << create_error("uniqueness", "Severity.INFO",
                              <<"Coluna '%s' esta vazia, unicidade nao validada", column>>,
                              None, None, None, None, None) >>]
        ELSE IF duplicates # <<>>
        THEN [errors |-> << create_error("uniqueness", severity,
                              <<"Valores duplicados em '%s': %d registros (%d valores unicos)",
                                column, total_dup_records, Len(duplicates)>>,
                              Some(Take(dup_indices, 50)), None, None, None,
                              Some([column |-> column,
                                    total_duplicates |-> total_dup_records,
                                    unique_duplicate_values |-> Len(duplicates),
                                    duplicate_percent |->
                                        (total_dup_records * 10000) \div NRows(df),
                                    top_duplicates |->
                                        Take(SortByCountDesc(duplicates), 10)])) >>,
              warnings |-> <<>>, info |-> <<>>]
        ELSE [errors |-> <<>>, warnings |-> <<>>,
              info |-> << create_error("uniqueness", "Severity.INFO",
                              <<"Coluna '%s' e unica (%d valores nao-nulos)",
                                column, Len(rows)>>,
                              None, None, None, None, None) >>]

\* UniquenessCheck.run; config.composite_keys is always empty, so the block
\* for composite keys never runs
UniquenessCheck_run(df, config) ==
    LET key_columns == SelectSeq(uniq_get_key_columns(df, config),
                                 LAMBDA c : HasColumn(df, c))
        per_key == [i \in 1..Len(key_columns) |-> uniq_validate_uniqueness(df, key_columns[i])]
        errors == Flatten([i \in 1..Len(per_key) |-> per_key[i].errors])
        warnings == Flatten([i \in 1..Len(per_key) |-> per_key[i].warnings])
        info == Flatten([i \in 1..Len(per_key) |-> per_key[i].info])
    IN  Returned(ValidationResult("uniqueness", Len(errors) = 0, errors, warnings, info), df)

(***************************************************************************)
(* validate/checks/constraints.py                                          *)
(***************************************************************************)
\* clean_cnes: every character of strip_chars removed, then strip(); the
\* strip_chars of the model are sets of whitespace characters
clean_cnes(value, strip_chars) == Strip(RemoveWhitespace(value))

\* config.constraints.get(name) when config.constraints is not empty, else None
cons_config_for(config, name) ==
    IF config.constraints # <<>> /\ HasKey(config.constraints, name)
    THEN Some(Lookup(config.constraints, name)) ELSE None

\* ConstraintsCheck._validate_cnes.  ConstraintConfig has no attribute
\* special_values, so the known special values are always the built-in ones.
cons_validate_cnes(df, config) ==
    LET cnes_config == cons_config_for(config, "CNES")
        special_values == {"Not informed", "Not informed1-4"}
        strip_chars == IF ~cnes_config.isNone /\ ~cnes_config.v.strip_chars.isNone
                       THEN cnes_config.v.strip_chars.v ELSE "\t \n"
        pattern == IF ~cnes_config.isNone /\ ~cnes_config.v.pattern.isNone
                   THEN cnes_config.v.pattern.v ELSE CNES_PATTERN
        val(i) == df.rows[i]["CNES"]
        cleaned(i) == clean_cnes(StrOf(val(i)), strip_chars)
        special(i) == ~isna(val(i))
                      /\ (StrOf(val(i)) \in special_values \/ cleaned(i) \in special_values)
        invalid(i) == ~isna(val(i)) /\ ~special(i) /\ ~RegexMatch(pattern, cleaned(i))
        invalid_rows == SelectSeq(Indices(NRows(df)), invalid)
        special_rows == SelectSeq(Indices(NRows(df)), special)
        invalid_indices == [j \in 1..Len(invalid_rows) |-> Idx(invalid_rows[j])]
        special_value_indices == [j \in 1..Len(special_rows) |-> Idx(special_rows[j])]
        sev_str == IF ~cnes_config.isNone THEN cnes_config.v.severity ELSE "MAJOR"
        severity == IF sev_str \in SeverityMembers THEN SeverityOf(sev_str)
                    ELSE "Severity.MAJOR"
        finding == create_error("constraints", severity,
                        <<"CNES com formato invalido (%d registros)", Len(invalid_indices)>>,
                        Some(Take(invalid_indices, 50)), Some("CNES"), None, None,
                        Some([pattern |-> pattern,
                              sample_invalid |->
                                  [j \in 1..Min(5, Len(invalid_rows)) |->
                                      StrOf(val(invalid_rows[j]))]]))
        in_errors == severity \in {"Severity.BLOCKER", "Severity.MAJOR"}
    IN  [errors |-> IF invalid_indices # <<>> /\ in_errors THEN <<finding>> ELSE <<>>,
         warnings |-> IF invalid_indices # <<>> /\ ~in_errors THEN <<finding>> ELSE <<>>,
         info |->
            IF special_value_indices # <<>>
            THEN << create_error("constraints", "Severity.INFO",
                        <<"CNES com valores especiais permitidos (%d registros)",
                          Len(special_value_indices)>>,
                        Some(Take(special_value_indices, 20)), Some("CNES"),
                        None, None, None) >>
            ELSE <<>>]

\* ConstraintsCheck._validate_telefone; a Telefone entry declared without a
\* pattern hands None to re.match: TypeError at the first value tested
cons_validate_telefone(df, config) ==
    LET tel_config == cons_config_for(config, "Telefone")
        special_values == IF ~tel_config.isNone
                          THEN Range(tel_config.v.allow_special_values)
                          ELSE {"Sem contato"}
        pattern == IF ~tel_config.isNone THEN tel_config.v.pattern
                   ELSE Some(TELEFONE_PATTERN)
        val(i) == df.rows[i]["Telefone"]
        val_str(i) == Strip(StrOf(val(i)))
        empty(i) == isna(val(i)) \/ val_str(i) = ""
        tested(i) == ~empty(i) /\ val_str(i) \notin special_values
        invalid(i) == tested(i) /\ ~RegexMatch(pattern.v, val_str(i))
        invalid_rows == SelectSeq(Indices(NRows(df)), invalid)
        empty_rows == SelectSeq(Indices(NRows(df)), empty)
        invalid_indices == [j \in 1..Len(invalid_rows) |-> Idx(invalid_rows[j])]
        empty_indices == [j \in 1..Len(empty_rows) |-> Idx(empty_rows[j])]
    IN  IF pattern.isNone /\ \E i \in 1..NRows(df) : tested(i)
        THEN [exc |-> "TypeError", warnings |-> <<>>, info |-> <<>>]
        ELSE [exc |-> "",
              warnings |->
                IF invalid_indices # <<>>
                THEN << create_error("constraints", "Severity.MINOR",
                            <<"Telefones com formato invalido (%d registros)",
                              Len(invalid_indices)>>,
                            Some(Take(invalid_indices, 30)), Some("Telefone"), None, None,
                            Some([sample_invalid |->
                                    [j \in 1..Min(5, Len(invalid_rows)) |->
                                        StrOf(val(invalid_rows[j]))]])) >>
                ELSE <<>>,
              info |->
                IF empty_indices # <<>>
                THEN << create_error("constraints", "Severity.INFO",
                            <<"Telefones vazios/nulos (%d registros)", Len(empty_indices)>>,
                            Some(Take(empty_indices, 20)), Some("Telefone"),
                            None, None, None) >>
                ELSE <<>>]

\* ConstraintsCheck._validate_pattern; the finding is built with
\* Severity[constraint.severity]: KeyError for a name that is no member
cons_validate_pattern(df, col_name, constraint) ==
    LET val(i) == df.rows[i][col_name]
        val_str(i) == IF ~constraint.strip_chars.isNone
                      THEN StripChars(StrOf(val(i)), constraint.strip_chars.v)
                      ELSE StrOf(val(i))
        invalid(i) == IF isna(val(i)) THEN ~constraint.allow_empty
                      ELSE ~RegexMatch(constraint.pattern.v, val_str(i))
        rows == SelectSeq(Indices(NRows(df)), invalid)
        invalid_indices == [j \in 1..Len(rows) |-> Idx(rows[j])]
    IN  IF invalid_indices = <<>> THEN [exc |-> "", value |-> <<>>]
        ELSE IF constraint.severity \notin SeverityMembers
        THEN [exc |-> "KeyError", value |-> <<>>]
        ELSE [exc |-> "",
              value |-> << create_error("constraints", SeverityOf(constraint.severity),
                              <<"'%s' com formato invalido (%d registros)",
                                col_name, Len(invalid_indices)>>,
                              Some(Take(invalid_indices, 50)), Some(col_name), None, None,
                              Some([pattern |-> constraint.pattern.v])) >>]

\* one iteration of the loop of ConstraintsCheck.run over config.constraints
cons_entry(df, col_name, constraint) ==
    LET result == cons_validate_pattern(df, col_name, constraint)
    IN  IF col_name \in {"CNES", "Telefone"} \/ ~HasColumn(df, col_name)
           \/ constraint.pattern.isNone
        THEN [exc |-> "", bucket |-> "info", value |-> <<>>]
        ELSE [exc |-> result.exc,
              bucket |-> CASE constraint.severity = "BLOCKER" -> "errors"
                           [] constraint.severity = "MAJOR" -> "errors"
                           [] constraint.severity = "MINOR" -> "warnings"
                           [] OTHER -> "info",
              value |-> result.value]

\* a faulty variant of the body of that loop: a severity that is absent or
\* no member name falls back to MAJOR, as in _validate_cnes
cons_missingness_column_major(df, config, col) ==
    LET null_count == Cardinality({i \in 1..NRows(df) : isna(df.rows[i][col])})
        miss_config == Get(config.missingness, col, <<>>)
        max_rate == Get(miss_config, "max_null_rate", 100)
        severity == Get(miss_config, "severity", "MAJOR")
        sev_enum == IF severity \in SeverityMembers THEN SeverityOf(severity)
                    ELSE "Severity.MAJOR"
        exceeded == NRows(df) > 0 /\ null_count * 100 > max_rate * NRows(df)
        error == create_error("constraints", sev_enum,
                    <<"'%s' tem %d nulos (maximo: %d)", col, null_count, max_rate>>,
                    None, Some(col), None, None,
                    Some([null_count |-> null_count, rows |-> NRows(df),
                          max_rate |-> max_rate]))
    IN  [bucket |-> CASE severity = "MINOR" -> "warnings"
                      [] severity = "INFO" -> "info"
                      [] OTHER -> "errors",
         value |-> IF exceeded THEN <<error>> ELSE <<>>]

\* the body of the loop of ConstraintsCheck._check_missingness for one column;
\* max_null_rate is a percentage, null_rate > max_rate is compared exactly
cons_missingness_column(df, config, col) ==
    LET null_count == Cardinality({i \in 1..NRows(df) : isna(df.rows[i][col])})
        miss_config == Get(config.missingness, col, <<>>)
        max_rate == Get(miss_config, "max_null_rate", 100)
        severity == Get(miss_config, "severity", "INFO")
        sev_enum == IF severity \in SeverityMembers THEN SeverityOf(severity)
                    ELSE "Severity.INFO"
        exceeded == NRows(df) > 0 /\ null_count * 100 > max_rate * NRows(df)
        error == create_error("constraints", sev_enum,
                    <<"'%s' tem %d nulos (maximo: %d)", col, null_count, max_rate>>,
                    None, Some(col), None, None,
                    Some([null_count |-> null_count, rows |-> NRows(df),
                          max_rate |-> max_rate]))
    IN  [bucket |-> CASE severity = "BLOCKER" -> "errors"
                      [] severity = "MAJOR" -> "errors"
                      [] severity = "MINOR" -> "warnings"
                      [] OTHER -> "info",
         value |-> IF exceeded THEN <<error>> ELSE <<>>]

\* ConstraintsCheck._check_missingness
cons_check_missingness(df, config) ==
    LET per_col == [i \in 1..NCols(df) |-> cons_missingness_column(df, config, df.columns[i])]
        bucket(b) == Flatten([i \in 1..Len(per_col) |->
                                IF per_col[i].bucket = b THEN per_col[i].value ELSE <<>>])
    IN  [errors |-> bucket("errors"), warnings |-> bucket("warnings"), info |-> bucket("info")]

\* ConstraintsCheck.run
ConstraintsCheck_run(df, config) ==
    LET none3 == [errors |-> <<>>, warnings |-> <<>>, info |-> <<>>]
        cnes_result == IF HasColumn(df, "CNES") THEN cons_validate_cnes(df, config) ELSE none3
        tel_result == IF HasColumn(df, "Telefone") THEN cons_validate_telefone(df, config)
                      ELSE [exc |-> "", warnings |-> <<>>, info |-> <<>>]
        entries == [i \in 1..Len(config.constraints) |->
                        cons_entry(df, config.constraints[i][1], config.constraints[i][2])]
        bucket(b) == Flatten([i \in 1..Len(entries) |->
                                IF entries[i].bucket = b THEN entries[i].value ELSE <<>>])
        missingness_result == cons_check_missingness(df, config)
        errors == cnes_result.errors \o bucket("errors") \o missingness_result.errors
        warnings == cnes_result.warnings \o tel_result.warnings \o bucket("warnings")
                        \o missingness_result.warnings
        info == cnes_result.info \o tel_result.info \o bucket("info")
                    \o missingness_result.info
    IN  IF tel_result.exc # "" THEN Raised(tel_result.exc, df)
        ELSE IF \E i \in 1..Len(entries) : entries[i].exc # ""
        THEN Raised("KeyError", df)
        ELSE Returned(ValidationResult("constraints", Len(errors) = 0,
                                       errors, warnings, info), df)

(***************************************************************************)
(* validate/checks/coherence.py                                            *)
(***************************************************************************)
\* CoherenceCheck._get_default_fu_state_mapping (names without diacritics)
DefaultFuStateMapping ==
    << <<"AC", <<"Acre">> >>, <<"AL", <<"Alagoas">> >>, <<"AM", <<"Amazonas">> >>,
       <<"AP", <<"Amapa">> >>, <<"BA", <<"Bahia">> >>, <<"CE", <<"Ceara">> >>,
       <<"DF", <<"Distrito Federal">> >>,
       <<"ES", <<"Espirito Santo", "Espirito Santo (alt)">> >>,
       <<"GO", <<"Goias">> >>, <<"MA", <<"Maranhao">> >>, <<"MG", <<"Minas Gerais">> >>,
       <<"MS", <<"Mato Grosso do Sul">> >>, <<"MT", <<"Mato Grosso">> >>,
       <<"PA", <<"Para">> >>, <<"PB", <<"Paraiba">> >>, <<"PE", <<"Pernambuco">> >>,
       <<"PI", <<"Piaui">> >>, <<"PR", <<"Parana">> >>, <<"RJ", <<"Rio de Janeiro">> >>,
       <<"RN", <<"Rio Grande do Norte", "Rio grande do Norte">> >>,
       <<"RO", <<"Rondonia">> >>, <<"RR", <<"Roraima">> >>,
       <<"RS", <<"Rio Grande do Sul">> >>, <<"SC", <<"Santa Catarina">> >>,
       <<"SE", <<"Sergipe">> >>, <<"SP", <<"Sao Paulo">> >>, <<"TO", <<"Tocantins">> >> >>

\* CoherenceCheck._get_default_fu_region_mapping
DefaultFuRegionMapping ==
    << <<"North", <<"AC", "AM", "AP", "PA", "RO", "RR", "TO">> >>,
       <<"Northeast", <<"AL", "BA", "CE", "MA", "PB", "PE", "PI", "RN", "SE">> >>,
       <<"Midwest", <<"DF", "GO", "MS", "MT">> >>,
       <<"Southeast", <<"ES", "MG", "RJ", "SP">> >>,
       <<"South", <<"PR", "RS", "SC">> >> >>

\* the details of a row-wise coherence rule, from the mismatch keys of the
\* rows that violate it: their number and the counting dict of the keys, most
\* frequent first
coh_mismatch_details(keys) ==
    [total_mismatches |-> Len(keys),
     mismatch_types |-> Take(SortByCountDesc(CountItems(keys)), 10)]

\* CoherenceCheck._validate_fu_state
coh_validate_fu_state(df, config) ==
    LET fu_to_state == IF config.fu_to_state # <<>> THEN config.fu_to_state
                       ELSE DefaultFuStateMapping
        fu(i) == df.rows[i]["FU"]
        state(i) == df.rows[i]["Federal_Un"]
        invalid(i) == /\ ~isna(fu(i)) /\ ~isna(state(i))
                      /\ StrOf(state(i)) \notin Range(Get(fu_to_state, StrOf(fu(i)), <<>>))
        rows == SelectSeq(Indices(NRows(df)), invalid)
    IN  [errors |->
            IF rows # <<>>
            THEN << create_error("coherence", "Severity.MAJOR",
                        <<"FU nao corresponde a Federal_Un (%d registros)", Len(rows)>>,
                        Some(Take([j \in 1..Len(rows) |-> Idx(rows[j])], 50)),
                        None, None, None,
                        Some(coh_mismatch_details([j \in 1..Len(rows) |->
                                <<StrOf(fu(rows[j])), StrOf(state(rows[j]))>>]))) >>
            ELSE <<>>,
         warnings |-> <<>>]

\* the inversion loop of _validate_region_fu: the region of the last entry
\* of the mapping that lists fu, or None
coh_expected_region(fu_to_region, fu) ==
    LET hits == SelectSeq(fu_to_region, LAMBDA e : fu \in Range(e[2]))
    IN  IF hits = <<>> THEN None ELSE Some(hits[Len(hits)][1])

\* CoherenceCheck._validate_region_fu
coh_validate_region_fu(df, config) ==
    LET fu_to_region == IF config.fu_to_region # <<>> THEN config.fu_to_region
                        ELSE DefaultFuRegionMapping
        fu(i) == df.rows[i]["FU"]
        region(i) == df.rows[i]["Region"]
        expected(i) == coh_expected_region(fu_to_region, StrOf(fu(i)))
        invalid(i) == /\ ~isna(fu(i)) /\ ~isna(region(i))
                      /\ ~expected(i).isNone
                      /\ StrOf(region(i)) # expected(i).v
        rows == SelectSeq(Indices(NRows(df)), invalid)
    IN  [errors |->
            IF rows # <<>>
            THEN << create_error("coherence", "Severity.MAJOR",
                        <<"Region inconsistente com FU (%d registros)", Len(rows)>>,
                        Some(Take([j \in 1..Len(rows) |-> Idx(rows[j])], 50)),
                        None, None, None,
                        Some(coh_mismatch_details([j \in 1..Len(rows) |->
                                <<StrOf(fu(rows[j])), StrOf(region(rows[j])),
                                  expected(rows[j]).v>>]))) >>
            ELSE <<>>,
         warnings |-> <<>>]

\* count_comma_separated
count_comma_separated(value) == CommaItems(value)

\* CoherenceCheck._validate_atendimento_count
coh_validate_atendimento_count(df, config) ==
    LET atend(i) == df.rows[i]["Atendiment"]
        atend_1(i) == df.rows[i]["Atendime_1"]
        mismatch(i) == /\ ~isna(atend(i)) /\ ~isna(atend_1(i))
                       /\ count_comma_separated(StrOf(atend(i)))
                            # count_comma_separated(StrOf(atend_1(i)))
        rows == SelectSeq(Indices(NRows(df)), mismatch)
    IN  [warnings |->
            IF rows # <<>>
            THEN << create_error("coherence", "Severity.MINOR",
                        <<"Contagem de itens diferente entre Atendiment e Atendime_1 (%d registros)",
                          Len(rows)>>,
                        Some(Take([j \in 1..Len(rows) |-> Idx(rows[j])], 30)),
                        None, None, None,
                        Some([total_mismatches |-> Len(rows)])) >>
            ELSE <<>>,
         info |-> <<>>]

\* CoherenceCheck.run
CoherenceCheck_run(df, config) ==
    LET none2 == [errors |-> <<>>, warnings |-> <<>>]
        fu_state_result == IF HasColumn(df, "FU") /\ HasColumn(df, "Federal_Un")
                           THEN coh_validate_fu_state(df, config) ELSE none2
        region_fu_result == IF HasColumn(df, "Region") /\ HasColumn(df, "FU")
                            THEN coh_validate_region_fu(df, config) ELSE none2
        atend_result == IF HasColumn(df, "Atendiment") /\ HasColumn(df, "Atendime_1")
                        THEN coh_validate_atendimento_count(df, config)
                        ELSE [warnings |-> <<>>, info |-> <<>>]
        errors == fu_state_result.errors \o region_fu_result.errors
        warnings == fu_state_result.warnings \o region_fu_result.warnings
                        \o atend_result.warnings
    IN  Returned(ValidationResult("coherence", Len(errors) = 0, errors, warnings,
                                  atend_result.info), df)

(***************************************************************************)
(* validate/checks/__init__.py and the check classes a caller may register *)
(***************************************************************************)
\* ALL_CHECKS, the classes named by the value of their name property
ALL_CHECKS ==
    <<"schema", "parsing", "constraints", "vocab", "coherence", "geospatial",
      "uniqueness", "reproducibility", "perf">>

\* subclasses of BaseCheck defined by the caller of ValidationRunner(checks=...)
CustomChecks == {"custom_a", "custom_b"}

\* a subclass of BaseCheck defined by the caller that leaves the abstract
\* property description undefined
AbstractChecks == {"custom_c"}

\* check_class(): "" when the instance is built, else the exception raised;
\* a class with an abstract member left undefined cannot be instantiated
Instantiate(cls) == IF cls \in AbstractChecks THEN "TypeError" ELSE ""

\* check.name of an instance of the class
CheckName(cls) == cls

\* what the run of a caller-defined check may do. custom_a leaves the frame
\* alone: it returns a result of its own category that passes or fails, or it
\* raises. custom_b works in place: it raises, or drops the last row and
\* passes, or adds a column and fails
CustomOutcomes(cls, df) ==
    LET name == CheckName(cls)
        ok == ValidationResult(name, TRUE, <<>>, <<>>,
                << create_error(name, "Severity.INFO", <<"ok">>, None, None, None, None, None) >>)
        failed == ValidationResult(name, FALSE,
                << create_error(name, "Severity.MAJOR", <<"failed">>, None, None, None, None, None) >>,
                << create_error(name, "Severity.MINOR", <<"warned">>, None, None, None, None, None) >>,
                <<>>)
        dropped == [df EXCEPT !.rows = SubSeq(df.rows, 1, NRows(df) - 1)]
        widened == [columns |-> Append(df.columns, "added"),
                    rows |-> [i \in 1..NRows(df) |->
                                [c \in Range(df.columns) \cup {"added"} |->
                                    IF c = "added" THEN NaN ELSE df.rows[i][c]]]]
    IN  IF cls = "custom_a"
        THEN {Returned(ok, df), Returned(failed, df), Raised("ValueError", df)}
        ELSE {Raised("KeyError", df)}
             \cup (IF NRows(df) > 0 THEN {Returned(ok, dropped)} ELSE {})
             \cup (IF ~HasColumn(df, "added") THEN {Returned(failed, widened)} ELSE {})

\* a faulty variant of the built-in checks: the parsing check trims the
\* string cells of the frame it was handed instead of a copy
BuiltinRun_inplace(cls, df, config, clock) ==
    LET trimmed == [df EXCEPT !.rows =
                        [r \in 1..NRows(df) |->
                            [c \in Range(df.columns) |->
                                IF df.rows[r][c].k = "str"
                                THEN Str(Strip(df.rows[r][c].s)) ELSE df.rows[r][c]]]]
    IN  CASE cls = "schema" -> SchemaCheck_run(df, config)
          [] cls = "parsing" -> [ParsingCheck_run(df, config) EXCEPT !.df = trimmed]
          [] cls = "constraints" -> ConstraintsCheck_run(df, config)
          [] cls = "vocab" -> VocabCheck_run(df, config)
          [] cls = "coherence" -> CoherenceCheck_run(df, config)
          [] cls = "geospatial" -> GeospatialCheck_run(df, config)
          [] cls = "uniqueness" -> UniquenessCheck_run(df, config)
          [] cls = "reproducibility" -> ReproducibilityCheck_run(df, config, clock)
          [] cls = "perf" -> PerfCheck_run(df, config, clock)

\* check.run(df, config) for an instance of a built-in class; clock is the
\* reading of the wall clock the check takes
BuiltinRun(cls, df, config, clock) ==
    CASE cls = "schema" -> SchemaCheck_run(df, config)
      [] cls = "parsing" -> ParsingCheck_run(df, config)
      [] cls = "constraints" -> ConstraintsCheck_run(df, config)
      [] cls = "vocab" -> VocabCheck_run(df, config)
      [] cls = "coherence" -> CoherenceCheck_run(df, config)
      [] cls = "geospatial" -> GeospatialCheck_run(df, config)
      [] cls = "uniqueness" -> UniquenessCheck_run(df, config)
      [] cls = "reproducibility" -> ReproducibilityCheck_run(df, config, clock)
      [] cls = "perf" -> PerfCheck_run(df, config, clock)

(***************************************************************************)
(* The inputs of the model: manifests (parsed YAML documents), the         *)
(* configurations obtained from them or from the defaults, and datasets.   *)
(* Every column of a dataset is homogeneous, as a file reader produces it: *)
(* numbers and NaN, or strings and NaN.                                    *)
(***************************************************************************)
Row(columns, cells) == [c \in Range(columns) |-> cells[CHOOSE i \in 1..Len(columns) : columns[i] = c]]

Frame(columns, cellRows) ==
    DataFrame(columns, [i \in 1..Len(cellRows) |-> Row(columns, cellRows[i])])

\* pd.DataFrame(): no column, no row
FrameNoColumns == Frame(<<>>, <<>>)

\* the header of a file without data rows
FrameNoRows == Frame(<<"Region", "CNES", "Lat", "Lon">>, <<>>)

FrameClean ==
    Frame(<<"Region", "FU", "Federal_Un", "CNES", "Lat", "Lon">>,
          << <<Str("North"), Str("AC"), Str("Acre"), Str("1234567"), Num(-2350), Num(-4660)>>,
             <<Str("Southeast"), Str("SP"), Str("Sao Paulo"), Str("7654321"), Num(-2300), Num(-4660)>> >>)

FrameDirty ==
    Frame(<<"Region", "FU", "CNES", "Telefone", "Lat", "Lon">>,
          << <<Str(" North"), Str("AC"), Str("1234567"), Str("(11) 5555-1234"), Num(9500), Num(-4660)>>,
             <<Str("Norte"), Str("SP"), Str("1234567 "), Str("abc"), Num(0), Num(0)>>,
             <<NaN, Str("XX"), Str("12345"), NaN, NaN, Num(-4600)>> >>)

FrameAlias ==
    Frame(<<"federal_unit", "Lat", "Lon">>,
          << <<Str("Acre_"), Str("abc"), Str("-46.6")>>,
             <<Str("Bahia"), Str("-23,5"), Str("-46.6")>> >>)

Datasets == {FrameNoColumns, FrameNoRows, FrameClean, FrameDirty, FrameAlias}

\* manifests; each is a parsable YAML mapping (an optional scalar such as a
\* pattern is written Some(value), so that .get(key) yields None or Some)
ManifestGeo ==
    << <<"input", << <<"file_path", "data.xlsx">> >> >>,
       <<"geospatial", << <<"lat_field", "Lat">>, <<"lon_field", "Lon">>,
                          <<"plausible_bounds", << <<"lat_min", -3400>>, <<"lat_max", 600>> >> >> >> >> >>

ManifestVocab ==
    << <<"controlled_vocab",
         << <<"Region", << <<"values", <<"North", "South", "Southeast">> >>,
                           <<"severity", "MINOR">> >> >> >> >> >>

ManifestVocabBadSeverity ==
    << <<"columns", << <<"expected",
            << << <<"name", "Region">> >>,
               << <<"name", "Federal_Un">>, <<"required", TRUE>>,
                  <<"aliases", <<"fed_unit", "federal_unit">> >> >> >> >> >> >>,
       <<"controlled_vocab",
         << <<"Region", << <<"values", <<"north", "south">> >>,
                           <<"case_sensitive", FALSE>>,
                           <<"severity", "CRITICAL">> >> >> >> >> >>

ManifestConstraints ==
    << <<"columns", << <<"expected",
            << << <<"name", "CNES">>, <<"type", "string">> >>,
               << <<"name", "Lat">>, <<"type", "float">> >>,
               << <<"name", "Municipio">>, <<"required", FALSE>> >> >> >> >> >>,
       <<"constraints",
         << <<"CNES", << <<"pattern", Some(CNES_PATTERN)>>, <<"severity", "blocker">> >> >>,
            <<"Telefone", << <<"allow_special_values", <<"Sem contato">> >> >> >>,
            <<"FU", << <<"pattern", Some(UF_PATTERN)>>, <<"severity", "MINOR">> >> >> >> >>,
       <<"uniqueness", << <<"primary_key", << <<"columns", <<"CNES">> >> >> >> >> >>,
       <<"missingness",
         << <<"per_field", << <<"Lat", << <<"max_null_rate", 10>>, <<"severity", "MAJOR">> >> >>,
                              <<"Region", << <<"max_null_rate", 0>> >> >> >> >> >> >> >>

\* a vocabulary of MINOR severity that leaves out a value of FrameClean
ManifestVocabMinor ==
    << <<"controlled_vocab",
         << <<"Region", << <<"values", <<"North", "South">> >>,
                           <<"severity", "MINOR">> >> >> >> >> >>

Manifests == {ManifestGeo, ManifestVocab, ManifestVocabBadSeverity, ManifestConstraints}

\* a manifest with each of the eight sections load_manifest reads
ManifestFull ==
    << <<"input", << <<"file_path", "data.xlsx">>, <<"sheet_name", Some("Sheet1")>> >> >>,
       <<"columns", << <<"expected",
            << << <<"name", "CNES">>, <<"type", "string">> >>,
               << <<"name", "Region">>, <<"required", FALSE>> >> >> >> >> >>,
       <<"constraints",
         << <<"CNES", << <<"pattern", Some(CNES_PATTERN)>>, <<"severity", "BLOCKER">> >> >> >> >>,
       <<"controlled_vocab",
         << <<"Region", << <<"values", <<"North", "South">> >> >> >> >> >>,
       <<"geospatial", << <<"lat_field", "Lat">>, <<"lon_field", "Lon">> >> >>,
       <<"cross_field",
         << <<"fu_region", << <<"field_a", "FU">>, <<"field_b", "Region">> >> >> >> >>,
       <<"uniqueness", << <<"primary_key", << <<"columns", <<"Region">> >> >> >> >> >>,
       <<"missingness",
         << <<"per_field", << <<"Lat", << <<"max_null_rate", 10>> >> >> >> >> >> >> >>

\* the sections of a manifest load_manifest reads, output apart
SectionNames ==
    {"input", "columns", "constraints", "controlled_vocab", "geospatial", "cross_field",
     "uniqueness", "missingness"}

\* the manifest ManifestFull with only the sections of keep written
ManifestWith(keep) ==
    LET Kept(section) == section[1] \in keep
    IN  SelectSeq(ManifestFull, Kept)

NoMappings == [fu_to_state |-> <<>>, fu_to_region |-> <<>>]

\* ManifestConfig(input_file=...) with every default
DefaultConfig == ManifestConfig("data.csv", "excel", None, "reports")

\* the configurations a caller can hand to ValidationRunner
Configs == {DefaultConfig} \cup {load_manifest(m, NoMappings) : m \in Manifests}

\* the manifest files a path may name: a file is a YAML document that is a
\* mapping, a sequence, null (an empty file), or text that is no YAML at all;
\* a path that is no key names no file
ManifestFiles ==
    << <<"geo.yaml", [doc |-> "mapping", data |-> ManifestGeo]>>,
       <<"constraints.yaml", [doc |-> "mapping", data |-> ManifestConstraints]>>,
       <<"vocab.yaml", [doc |-> "mapping", data |-> ManifestVocabMinor]>>,
       <<"broken.yaml", [doc |-> "invalid", data |-> <<>>]>>,
       <<"empty.yaml", [doc |-> "null", data |-> <<>>]>>,
       <<"list.yaml", [doc |-> "sequence", data |-> <<>>]>> >>

\* the manifest paths a caller passes
ManifestPaths ==
    {"geo.yaml", "constraints.yaml", "vocab.yaml", "broken.yaml", "empty.yaml", "list.yaml", "missing.yaml"}

\* the paths that name no manifest the loader can read as a mapping
BadManifestPaths == {"broken.yaml", "empty.yaml", "list.yaml", "missing.yaml"}

\* yaml.safe_load(f): the document, or yaml.YAMLError
yaml_safe_load(file) ==
    IF file.doc = "invalid" THEN [exc |-> "YAMLError", value |-> None]
    ELSE [exc |-> "", value |-> Some(file)]

\* a faulty variant of load_manifest: a path that names no file yields the
\* configuration of an empty manifest
load_manifest_path_lenient(path) ==
    IF ~HasKey(ManifestFiles, path)
    THEN [exc |-> "", value |-> Some(load_manifest(<<>>, NoMappings))]
    ELSE LET parsed == yaml_safe_load(Lookup(ManifestFiles, path))
         IN  IF parsed.exc # "" THEN parsed
             ELSE IF parsed.value.v.doc # "mapping"
                  THEN [exc |-> "AttributeError", value |-> None]
             ELSE [exc |-> "", value |-> Some(load_manifest(parsed.value.v.data, NoMappings))]

\* load_manifest(path): FileNotFoundError for a path that names no file, the
\* error of yaml.safe_load, AttributeError at data.get for a document that is
\* no mapping, else the configuration
load_manifest_path(path) ==
    IF ~HasKey(ManifestFiles, path)
    THEN [exc |-> "FileNotFoundError", value |-> None]
    ELSE LET parsed == yaml_safe_load(Lookup(ManifestFiles, path))
         IN  IF parsed.exc # "" THEN parsed
             ELSE IF parsed.value.v.doc # "mapping"
                  THEN [exc |-> "AttributeError", value |-> None]
             ELSE [exc |-> "", value |-> Some(load_manifest(parsed.value.v.data, NoMappings))]

\* the data paths a caller passes: a file the reader opens, a path that
\* names no file, a file with a suffix load_dataframe does not know
DataPaths == {"data.csv", "missing.csv", "data.txt"}

\* load_dataframe(file_path, config): the frames the file may hold, or the
\* exception raised
load_dataframe(file_path) ==
    CASE file_path = "missing.csv" -> {[exc |-> "FileNotFoundError", value |-> None]}
      [] file_path = "data.txt" -> {[exc |-> "ValueError", value |-> None]}
      [] OTHER -> {[exc |-> "", value |-> Some(frame)] : frame \in Datasets}

(***************************************************************************)
(* validate/runner.py: the state of one ValidationRunner and of one call   *)
(* of its run method, followed by the caller's use of the returned report. *)
(***************************************************************************)
VARIABLES
    pc,         \* "new", "failed" (the entry point raised), "configured"
                \* (run_validation has its config), "constructed", "running"
                \* (inside run), "returned", "raised" (run raised),
                \* "exited" (main returned), "reported" (to_dict was taken)
    self,       \* the runner's attributes: config, checks, skip_checks
    df,         \* the DataFrame object handed to run
    i,          \* position in self.checks of the check the loop is at
    results,    \* the local list results of run
    report,     \* the ValidationReport returned by run, None before
    clock,      \* the pace of the wall clock during this run
    df_begin,   \* history: the DataFrame as it was when run was called
    config_begin, \* history: self.config as it was when run was called
    first,      \* the report of the previous call of run on the same frame,
                \* None when run was called at most once
    trace,      \* history: one entry per step of the loop of run: the position
                \* in self.checks, the event ("skipped", "returned", "raised"),
                \* the exception raised and the result check.run returned
    edits,      \* number of changes the caller made to the returned report
    origin,     \* history: how the runner came to be: the entry point called,
                \* the manifest path it was given, the exception it raised
                \* ("" when none) and whether load_dataframe was executed
    call        \* a call of a function of the package outside any run: the
                \* class or function the arguments are for, the function
                \* applied ("" before the call), its arguments and its value

vars == <<pc, self, df, i, results, report, clock, df_begin, config_begin, first, trace, edits,
          origin, call>>

\* no entry point has been called yet
NoEntry ==
    [point |-> "", manifest |-> None, exc |-> "", loaded |-> FALSE,
     fail_on_warning |-> FALSE, exit |-> None, checks |-> None]

\* no function is being called
NoCall == [of |-> "", fn |-> "", args |-> <<>>, value |-> None]

\* the classes a caller registers explicitly; the other built-in classes
\* are registered through the default list ALL_CHECKS
RegisteredClasses == {"geospatial", "vocab"} \cup CustomChecks \cup AbstractChecks

\* the lists a caller may pass as checks: up to MaxChecks classes
CheckLists == UNION {[1..n -> RegisteredClasses] : n \in 0..MaxChecks}

\* the lists a caller may pass as skip_checks
SkipLists == {<<>>, <<"geospatial", "custom_a", "no_such_check">>,
              ALL_CHECKS \o <<"custom_a", "custom_b">>}

\* the paces of the clock
Clocks == {1, 2}

Init ==
    /\ pc = "new"
    /\ self = [config |-> None, checks |-> <<>>, skip_checks |-> <<>>]
    /\ df = FrameNoColumns
    /\ i = 1
    /\ results = <<>>
    /\ report = None
    /\ clock = 1
    /\ df_begin = FrameNoColumns
    /\ config_begin = DefaultConfig
    /\ first = None
    /\ trace = <<>>
    /\ edits = 0
    /\ origin = NoEntry
    /\ call = NoCall

\* a faulty variant of __init__: an empty list of checks is kept
ConstructWithConfig_keep_empty ==
    /\ pc = "new"
    /\ \E config \in Configs, checks \in {None} \cup {Some(l) : l \in CheckLists},
          skip_checks \in {None} \cup {Some(l) : l \in SkipLists} :
        /\ self' = [config |-> Some(config),
                    checks |-> IF checks.isNone THEN ALL_CHECKS ELSE checks.v,
                    skip_checks |-> IF skip_checks.isNone THEN <<>> ELSE skip_checks.v]
        /\ origin' = [NoEntry EXCEPT !.point = "ValidationRunner", !.checks = checks]
    /\ pc' = "constructed"
    /\ UNCHANGED <<call, df, i, results, report, clock, df_begin, config_begin, first, trace, edits>>

\* ValidationRunner.__init__ with an explicit config; the argument checks
\* is kept for the record
ConstructWithConfig ==
    /\ pc = "new"
    /\ \E config \in Configs, checks \in {None} \cup {Some(l) : l \in CheckLists},
          skip_checks \in {None} \cup {Some(l) : l \in SkipLists} :
        /\ self' = [config |-> Some(config),
                    checks |-> IF checks.isNone \/ checks.v = <<>> THEN ALL_CHECKS
                               ELSE checks.v,
                    skip_checks |-> IF skip_checks.isNone THEN <<>> ELSE skip_checks.v]
        /\ origin' = [NoEntry EXCEPT !.point = "ValidationRunner", !.checks = checks]
    /\ pc' = "constructed"
    /\ UNCHANGED <<call, df, i, results, report, clock, df_begin, config_begin, first, trace, edits>>

\* ValidationRunner.__init__ without a config: `config or ManifestConfig()`
\* calls ManifestConfig with no argument, and input_file has no default
ConstructWithoutConfig ==
    /\ pc = "new"
    /\ pc' = "failed"
    /\ origin' = [NoEntry EXCEPT !.point = "ValidationRunner", !.exc = "TypeError"]
    /\ UNCHANGED <<call, self, df, i, results, report, clock, df_begin, config_begin, first, trace, edits>>

\* ValidationRunner.from_manifest(manifest_path)
FromManifest ==
    /\ pc = "new"
    /\ \E manifest_path \in ManifestPaths :
        \E config \in {load_manifest_path(manifest_path)} :
            /\ origin' = [point |-> "from_manifest", manifest |-> Some(manifest_path),
                          exc |-> config.exc, loaded |-> FALSE,
                          fail_on_warning |-> FALSE, exit |-> None, checks |-> None]
            /\ IF config.exc # ""
               THEN pc' = "failed" /\ UNCHANGED self
               ELSE /\ pc' = "constructed"
                    /\ self' = [config |-> config.value, checks |-> ALL_CHECKS,
                                skip_checks |-> <<>>]
    /\ UNCHANGED <<call, df, i, results, report, clock, df_begin, config_begin, first, trace, edits>>

\* run_validation up to config.input_file = file_path. Its locals config
\* and skip_checks are kept in the fields of the runner they are handed to.
RunValidationConfig ==
    /\ pc = "new"
    /\ \E file_path \in DataPaths,
          manifest_path \in {None} \cup {Some(p) : p \in ManifestPaths \cup {""}},
          skip_checks \in {None, Some(<<"geospatial", "custom_a", "no_such_check">>)} :
        \E config \in {IF manifest_path.isNone \/ manifest_path.v = ""
                        THEN [exc |-> "TypeError", value |-> None]
                        ELSE load_manifest_path(manifest_path.v)} :
            /\ origin' = [point |-> "run_validation", manifest |-> manifest_path,
                          exc |-> config.exc, loaded |-> FALSE,
                          fail_on_warning |-> FALSE, exit |-> None, checks |-> None]
            /\ IF config.exc # ""
               THEN pc' = "failed" /\ UNCHANGED self
               ELSE /\ pc' = "configured"
                    /\ self' = [config |-> Some([config.value.v EXCEPT !.input_file = file_path]),
                                checks |-> <<>>,
                                skip_checks |-> IF skip_checks.isNone THEN <<>>
                                                ELSE skip_checks.v]
    /\ UNCHANGED <<call, df, i, results, report, clock, df_begin, config_begin, first, trace, edits>>

\* run_validation from load_dataframe to the construction of the runner
RunValidationLoad ==
    /\ pc = "configured"
    /\ \E frame \in load_dataframe(self.config.v.input_file) :
        /\ origin' = [origin EXCEPT !.exc = frame.exc, !.loaded = TRUE]
        /\ IF frame.exc # ""
           THEN pc' = "failed" /\ UNCHANGED <<self, df>>
           ELSE /\ pc' = "constructed"
                /\ df' = frame.value.v
                /\ self' = [self EXCEPT !.checks = ALL_CHECKS]
    /\ UNCHANGED <<call, i, results, report, clock, df_begin, config_begin, first, trace, edits>>

\* run(df) is entered: start_time is read, results = []
RunBegin ==
    /\ pc = "constructed"
    /\ \E frame \in IF origin.loaded THEN {df} ELSE Datasets, pace \in Clocks :
        /\ df' = frame
        /\ df_begin' = frame
        /\ clock' = pace
    /\ config_begin' = self.config.v
    /\ i' = 1
    /\ results' = <<>>
    /\ trace' = <<>>
    /\ pc' = "running"
    /\ UNCHANGED <<origin, call, self, report, first, edits>>

\* the outcomes of check.run(df, self.config) for the class at position i,
\* each with the configuration object as the check leaves it: no check
\* assigns to config or to a list or mapping reachable from it
RunOutcomes(cls) ==
    {[exc |-> o.exc, result |-> o.result, df |-> o.df, config |-> self.config.v] :
        o \in IF cls \in CustomChecks THEN CustomOutcomes(cls, df)
              ELSE {BuiltinRun(cls, df, self.config.v, clock)}}

\* a faulty variant of the except branch: the finding is MAJOR and is filed
\* under warnings as well
FaultResult_major(name, exc) ==
    LET finding == [severity |-> SeverityValue("Severity.MAJOR"),
                    message |-> <<"Erro na execucao do check: %s", exc>>,
                    details |-> [exception |-> exc,
                                 traceback |-> <<"Traceback (most recent call last)", name, exc>>]]
    IN  [category |-> name, passed |-> FALSE, errors |-> <<finding>>,
         warnings |-> <<finding>>, info |-> <<>>, duration_seconds |-> 0]

\* the ValidationResult run builds in its except branch
FaultResult(name, exc) ==
    [category |-> name, passed |-> FALSE,
     errors |-> << [severity |-> SeverityValue("Severity.BLOCKER"),
                    message |-> <<"Erro na execucao do check: %s", exc>>,
                    details |-> [exception |-> exc,
                                 traceback |-> <<"Traceback (most recent call last)", name, exc>>]] >>,
     warnings |-> <<>>, info |-> <<>>, duration_seconds |-> 0]

\* a faulty variant of the skip: a placeholder result is filed for the check
RunSkip_placeholder ==
    /\ pc = "running"
    /\ i <= Len(self.checks)
    /\ Instantiate(self.checks[i]) = ""
    /\ CheckName(self.checks[i]) \in Range(self.skip_checks)
    /\ results' = Append(results, ValidationResult(CheckName(self.checks[i]), TRUE,
                                                   <<>>, <<>>, <<>>))
    /\ trace' = Append(trace, [pos |-> i, event |-> "skipped", exc |-> "", out |-> NoResult])
    /\ i' = i + 1
    /\ UNCHANGED <<origin, call, pc, self, df, report, clock, df_begin, config_begin, first, edits>>

\* loop body, `if check.name in self.skip_checks: continue`
RunSkip ==
    /\ pc = "running"
    /\ i <= Len(self.checks)
    /\ Instantiate(self.checks[i]) = ""
    /\ CheckName(self.checks[i]) \in Range(self.skip_checks)
    /\ trace' = Append(trace, [pos |-> i, event |-> "skipped", exc |-> "", out |-> NoResult])
    /\ i' = i + 1
    /\ UNCHANGED <<origin, call, pc, self, df, results, report, clock, df_begin, config_begin, first, edits>>

\* a faulty variant of the try branch: the result is put in front of the list
RunCheck_prepend ==
    /\ pc = "running"
    /\ i <= Len(self.checks)
    /\ Instantiate(self.checks[i]) = ""
    /\ CheckName(self.checks[i]) \notin Range(self.skip_checks)
    /\ \E outcome \in RunOutcomes(self.checks[i]) :
        LET timed == timed_run(outcome, clock)
        IN  /\ timed.exc = ""
            /\ results' = <<timed.result>> \o results
            /\ df' = timed.df
            /\ self' = [self EXCEPT !.config = Some(timed.config)]
            /\ trace' = Append(trace, [pos |-> i, event |-> "returned", exc |-> "",
                                        out |-> outcome.result])
    /\ i' = i + 1
    /\ UNCHANGED <<origin, call, pc, report, clock, df_begin, config_begin, first, edits>>

\* loop body, try branch: check.timed_run returns and its result is appended
RunCheck ==
    /\ pc = "running"
    /\ i <= Len(self.checks)
    /\ Instantiate(self.checks[i]) = ""
    /\ CheckName(self.checks[i]) \notin Range(self.skip_checks)
    /\ \E outcome \in RunOutcomes(self.checks[i]) :
        LET timed == timed_run(outcome, clock)
        IN  /\ timed.exc = ""
            /\ results' = Append(results, timed.result)
            /\ df' = timed.df
            /\ self' = [self EXCEPT !.config = Some(timed.config)]
            /\ trace' = Append(trace, [pos |-> i, event |-> "returned", exc |-> "",
                                        out |-> outcome.result])
    /\ i' = i + 1
    /\ UNCHANGED <<origin, call, pc, report, clock, df_begin, config_begin, first, edits>>

\* a faulty variant of the except branch: the fault ends the loop
RunCheckFault_abort ==
    /\ pc = "running"
    /\ i <= Len(self.checks)
    /\ Instantiate(self.checks[i]) = ""
    /\ CheckName(self.checks[i]) \notin Range(self.skip_checks)
    /\ \E outcome \in RunOutcomes(self.checks[i]) :
        LET timed == timed_run(outcome, clock)
        IN  /\ timed.exc # ""
            /\ results' = Append(results, FaultResult(CheckName(self.checks[i]), timed.exc))
            /\ df' = timed.df
            /\ self' = [self EXCEPT !.config = Some(timed.config)]
            /\ trace' = Append(trace, [pos |-> i, event |-> "raised", exc |-> timed.exc,
                                        out |-> NoResult])
    /\ i' = Len(self.checks) + 1
    /\ UNCHANGED <<origin, call, pc, report, clock, df_begin, config_begin, first, edits>>

\* a faulty variant of the except branch: the check is run a second time
\* before the fault is filed
RunCheckFault_retry ==
    /\ pc = "running"
    /\ i <= Len(self.checks)
    /\ Instantiate(self.checks[i]) = ""
    /\ CheckName(self.checks[i]) \notin Range(self.skip_checks)
    /\ \E outcome \in RunOutcomes(self.checks[i]) :
        LET timed == timed_run(outcome, clock)
            entry == [pos |-> i, event |-> "raised", exc |-> timed.exc, out |-> NoResult]
        IN  /\ timed.exc # ""
            /\ results' = Append(results, FaultResult(CheckName(self.checks[i]), timed.exc))
            /\ df' = timed.df
            /\ self' = [self EXCEPT !.config = Some(timed.config)]
            /\ trace' = trace \o <<entry, entry>>
    /\ i' = i + 1
    /\ UNCHANGED <<origin, call, pc, report, clock, df_begin, config_begin, first, edits>>

\* loop body, except branch: check.timed_run raised an Exception
RunCheckFault ==
    /\ pc = "running"
    /\ i <= Len(self.checks)
    /\ Instantiate(self.checks[i]) = ""
    /\ CheckName(self.checks[i]) \notin Range(self.skip_checks)
    /\ \E outcome \in RunOutcomes(self.checks[i]) :
        LET timed == timed_run(outcome, clock)
        IN  /\ timed.exc # ""
            /\ results' = Append(results, FaultResult(CheckName(self.checks[i]), timed.exc))
            /\ df' = timed.df
            /\ self' = [self EXCEPT !.config = Some(timed.config)]
            /\ trace' = Append(trace, [pos |-> i, event |-> "raised", exc |-> timed.exc,
                                        out |-> NoResult])
    /\ i' = i + 1
    /\ UNCHANGED <<origin, call, pc, report, clock, df_begin, config_begin, first, edits>>

\* loop body, `check = check_class()` raises: the statement stands outside
\* the try, the exception leaves run and no report is built
RunInstantiateFault ==
    /\ pc = "running"
    /\ i <= Len(self.checks)
    /\ Instantiate(self.checks[i]) # ""
    /\ trace' = Append(trace, [pos |-> i, event |-> "aborted",
                                exc |-> Instantiate(self.checks[i]), out |-> NoResult])
    /\ pc' = "raised"
    /\ UNCHANGED <<origin, call, self, df, i, results, report, clock, df_begin, config_begin,
                   first, edits>>

\* after the loop: the report is assembled and returned
RunFinish ==
    /\ pc = "running"
    /\ i > Len(self.checks)
    /\ report' = Some(ValidationReport(clock,
                        IF self.config.v.input_file # "" THEN self.config.v.input_file
                        ELSE "unknown",
                        NRows(df), NCols(df), results, clock))
    /\ pc' = "returned"
    /\ UNCHANGED <<origin, call, self, df, i, results, clock, df_begin, config_begin, first, trace, edits>>

\* the caller calls run once more, on the same runner and with the same
\* frame object; the runner is one of built-in checks only
RunAgain ==
    /\ pc = "returned"
    /\ edits = 0
    /\ first.isNone
    /\ \A p \in 1..Len(self.checks) : self.checks[p] \in Range(ALL_CHECKS)
    /\ \E pace \in Clocks : clock' = pace
    /\ first' = report
    /\ report' = None
    /\ df_begin' = df
    /\ config_begin' = self.config.v
    /\ i' = 1
    /\ results' = <<>>
    /\ trace' = <<>>
    /\ pc' = "running"
    /\ UNCHANGED <<origin, call, self, df, edits>>

\* the caller appends a finding to the errors list of the first or of the last
\* result of the report (ValidationResult is a plain mutable dataclass)
AppendError ==
    /\ pc = "returned"
    /\ edits < MaxEdits
    /\ report.v.results # <<>>
    /\ \E k \in {1, Len(report.v.results)} :
        report' = [report EXCEPT !.v.results[k].errors =
                        Append(@, create_error(report.v.results[k].category, "Severity.MAJOR",
                                    <<"added by the caller">>, None, None, None, None, None))]
    /\ edits' = edits + 1
    /\ UNCHANGED <<origin, call, pc, self, df, i, results, clock, df_begin, config_begin, first, trace>>

\* the caller appends a result to report.results
AppendResult ==
    /\ pc = "returned"
    /\ edits < MaxEdits
    /\ \E passed \in BOOLEAN :
        report' = [report EXCEPT !.v.results =
                        Append(@, ValidationResult("extra", passed,
                                    IF passed THEN <<>>
                                    ELSE << create_error("extra", "Severity.BLOCKER",
                                               <<"added by the caller">>,
                                               None, None, None, None, None) >>,
                                    <<>>, <<>>))]
    /\ edits' = edits + 1
    /\ UNCHANGED <<origin, call, pc, self, df, i, results, clock, df_begin, config_begin, first, trace>>

\* the findings of one bucket of all the results of a report, in order
Bucket(rep, bucket) ==
    Flatten([k \in 1..Len(rep.results) |->
                CASE bucket = "errors" -> rep.results[k].errors
                  [] bucket = "warnings" -> rep.results[k].warnings
                  [] bucket = "info" -> rep.results[k].info])

\* how many findings of a list have one of the given severities
CountSeverity(findings, severities) ==
    Len(SelectSeq(findings, LAMBDA e : e.severity \in severities))

\* the key count_by_severity counts a finding under: severity.value for a
\* member, str(severity) for the string of a finding that is a dict
SeverityKey(finding) ==
    IF finding.severity \in Severity THEN SeverityValue(finding.severity)
    ELSE finding.severity

\* ValidationReport.count_by_severity(): one entry per member of Severity,
\* and one per other key met; the findings of the three buckets are counted
count_by_severity(rep) ==
    LET held == Bucket(rep, "errors") \o Bucket(rep, "warnings") \o Bucket(rep, "info")
    IN  [key \in SeverityMembers \cup {SeverityKey(held[f]) : f \in 1..Len(held)} |->
            Cardinality({f \in 1..Len(held) : SeverityKey(held[f]) = key})]

\* get_summary_stats(report): the three totals are the lengths of the
\* buckets; the counts by severity are taken in the loop over result.errors
\* only, a severity being a member or its name
get_summary_stats(rep) ==
    [passed |-> ReportPassed(rep),
     total_checks |-> Len(rep.results),
     passed_checks |-> PassedChecks(rep),
     failed_checks |-> Len(rep.results) - PassedChecks(rep),
     total_errors |-> Len(Bucket(rep, "errors")),
     total_warnings |-> Len(Bucket(rep, "warnings")),
     total_info |-> Len(Bucket(rep, "info")),
     blocker_count |-> CountSeverity(Bucket(rep, "errors"), {"Severity.BLOCKER", "BLOCKER"}),
     major_count |-> CountSeverity(Bucket(rep, "errors"), {"Severity.MAJOR", "MAJOR"}),
     minor_count |-> CountSeverity(Bucket(rep, "errors"), {"Severity.MINOR", "MINOR"}),
     execution_time |-> rep.duration_seconds]

\* a faulty variant of the pass rate: a report without results has the
\* pass rate 1
pass_rate_vacuous(rep) ==
    IF TotalChecks(rep) > 0 THEN <<PassedChecks(rep), TotalChecks(rep)>> ELSE 1

\* the entry pass_rate of to_dict: passed_checks / total_checks, kept as the
\* pair of numerator and denominator, or the integer 0 for no check
pass_rate(rep) ==
    IF TotalChecks(rep) > 0 THEN <<PassedChecks(rep), TotalChecks(rep)>> ELSE 0

\* ValidationReport.to_dict()["summary"]
to_dict_summary(rep) ==
    [total_checks |-> TotalChecks(rep),
     passed |-> PassedChecks(rep),
     failed |-> FailedChecks(rep),
     by_severity |-> count_by_severity(rep),
     pass_rate |-> pass_rate(rep)]

\* a faulty variant of the return code of main: a warning costs the exit
\* code 1 whether or not --fail-on-warning is given
main_return_strict(rep, stats, fail_on_warning) ==
    IF ~ReportPassed(rep) THEN 2
    ELSE IF stats.total_warnings > 0 THEN 1
    ELSE 0

\* main, "Determinar codigo de retorno"
main_return(rep, stats, fail_on_warning) ==
    IF ~ReportPassed(rep) THEN 2
    ELSE IF fail_on_warning /\ stats.total_warnings > 0 THEN 1
    ELSE 0

\* cli.main around its call of run_validation: the call raised (or the input
\* file does not exist) and main returns 1, or the call returned a report,
\* the statistics are taken, the reports are written and the return code is
\* determined
Main ==
    /\ origin.point = "run_validation"
    /\ \/ pc = "failed"
       \/ pc = "returned" /\ edits = 0 /\ first.isNone
    /\ \E fail_on_warning \in BOOLEAN :
        origin' = [origin EXCEPT
                    !.fail_on_warning = fail_on_warning,
                    !.exit = IF pc = "failed" THEN Some(1)
                             ELSE Some(main_return(report.v, get_summary_stats(report.v),
                                                   fail_on_warning))]
    /\ pc' = "exited"
    /\ UNCHANGED <<call, self, df, i, results, report, clock, df_begin, config_begin, first,
                   trace, edits>>

\* the caller takes report.to_dict() of the report run returned
ToDict ==
    /\ pc = "returned"
    /\ edits = 0
    /\ call' = [of |-> "ValidationReport", fn |-> "to_dict", args |-> <<>>,
                value |-> Some(to_dict_summary(report.v))]
    /\ pc' = "reported"
    /\ UNCHANGED <<origin, self, df, i, results, report, clock, df_begin, config_begin, first,
                   trace, edits>>

Next ==
    \/ ConstructWithConfig
    \/ ConstructWithoutConfig
    \/ FromManifest
    \/ RunValidationConfig
    \/ RunValidationLoad
    \/ RunBegin
    \/ RunSkip
    \/ RunCheck
    \/ RunCheckFault
    \/ RunInstantiateFault
    \/ RunFinish
    \/ RunAgain
    \/ AppendError
    \/ AppendResult
    \/ Main
    \/ ToDict

Spec == Init /\ [][Next]_vars

(***************************************************************************)
(* Calls of the package's functions outside any run: the comparison of     *)
(* severities, the sorting of findings by severity and the loading of a    *)
(* manifest.  The arguments are drawn in the initial state; an action      *)
(* applies the function to them.                                           *)
(***************************************************************************)
MaxFindings == 3

\* the lists of severities of at most MaxFindings findings
SeverityLists == UNION {[1..n -> Severity] : n \in 0..MaxFindings}

\* one finding per severity of the list; the message tells the position
FindingsOf(sevs) ==
    [k \in 1..Len(sevs) |->
        ValidationError(sevs[k], "test", <<"finding %d", k>>, None, None, None, None, None)]

\* the frames and the configurations of the calls of the constraints check:
\* one missingness entry, for a column with or without missing cells, with a
\* maximum null rate in percent and with a severity that is absent, a member
\* name, or no member name
MissingnessFrames == {FrameNoRows, FrameClean, FrameDirty}

MissingnessSeverities ==
    {None} \cup {Some(name) : name \in SeverityMembers \cup {"major", "CRITICAL"}}

MissingnessConfigs ==
    {[DefaultConfig EXCEPT !.missingness =
        << <<col, << <<"max_null_rate", max_null_rate>> >>
                     \o (IF severity.isNone THEN <<>>
                         ELSE << <<"severity", severity.v>> >>)>> >>] :
        col \in {"Region", "Lat"}, max_null_rate \in {0, 50}, severity \in MissingnessSeverities}

\* the frames and the configurations of the calls of the schema check: one
\* expected column Federal_Un, required or not, with its aliases in either
\* order; frames with the canonical name, with aliases, with both or neither
AliasFrames ==
    {Frame(columns, << [k \in 1..Len(columns) |-> Str("Acre")] >>) :
        columns \in {<<"Lat">>, <<"Federal_Un", "Lat">>, <<"fed_unit">>, <<"Lat", "federal_unit">>,
                     <<"federal_unit", "fed_unit">>, <<"fed_unit", "Lat", "federal_unit">>,
                     <<"federal_unit", "Federal_Un">>,
                     <<"fed_unit", "federal_unit", "Federal_Un">>}}

AliasConfigs ==
    {[DefaultConfig EXCEPT !.columns =
        <<ColumnConfig("Region", FALSE, "string", <<>>),
          ColumnConfig("Federal_Un", required, "string", aliases)>>] :
        required \in BOOLEAN,
        aliases \in {<<>>, <<"federal_unit">>, <<"fed_unit", "federal_unit">>,
                     <<"federal_unit", "uf", "fed_unit">>}}

\* the frames of the calls of _validate_telefone on long columns: one
\* column Telefone of up to MaxRows rows, every cell of it missing
MaxRows == 21

TelefoneFrames ==
    {Frame(<<"Telefone">>, [r \in 1..n |-> <<NaN>>]) : n \in 0..MaxRows}

\* nothing of the runner moves during these calls
runner_vars ==
    <<pc, self, df, i, results, report, clock, df_begin, config_begin, first, trace, edits,
      origin>>

InitCalls ==
    /\ pc = "new"
    /\ self = [config |-> None, checks |-> <<>>, skip_checks |-> <<>>]
    /\ df = FrameNoColumns
    /\ i = 1
    /\ results = <<>>
    /\ report = None
    /\ clock = 1
    /\ df_begin = FrameNoColumns
    /\ config_begin = DefaultConfig
    /\ first = None
    /\ trace = <<>>
    /\ edits = 0
    /\ origin = NoEntry
    /\ \/ \E sevs \in SeverityLists :
            call = [NoCall EXCEPT !.of = "Severity", !.args = <<sevs>>]
       \/ \E keep \in SUBSET SectionNames :
            call = [NoCall EXCEPT !.of = "load_manifest",
                                  !.args = <<ManifestWith(keep), NoMappings>>]
       \/ \E frame \in MissingnessFrames, config \in MissingnessConfigs :
            call = [NoCall EXCEPT !.of = "ConstraintsCheck", !.args = <<frame, config>>]
       \/ \E frame \in TelefoneFrames :
            call = [NoCall EXCEPT !.of = "_validate_telefone", !.args = <<frame, DefaultConfig>>]
       \/ \E frame \in AliasFrames, config \in AliasConfigs :
            call = [NoCall EXCEPT !.of = "SchemaCheck", !.args = <<frame, config>>]

\* a < b, b < a, b < c, a < c and a < a for three severities a, b, c
CallLt ==
    /\ call.of = "Severity"
    /\ call.fn = ""
    /\ Len(call.args[1]) = 3
    /\ LET a == call.args[1][1]
           b == call.args[1][2]
           c == call.args[1][3]
       IN  call' = [of |-> call.of, fn |-> "Severity.__lt__", args |-> call.args[1],
                    value |-> Some([ab |-> SeverityLt(a, b), ba |-> SeverityLt(b, a),
                                    bc |-> SeverityLt(b, c), ac |-> SeverityLt(a, c),
                                    aa |-> SeverityLt(a, a)])]
    /\ UNCHANGED runner_vars

\* sorted(findings, key=lambda e: e.severity)
CallSorted ==
    /\ call.of = "Severity"
    /\ call.fn = ""
    /\ call' = [of |-> call.of, fn |-> "sorted", args |-> call.args[1],
                value |-> Some(SortedBySeverity(FindingsOf(call.args[1])))]
    /\ UNCHANGED runner_vars

\* load_manifest for a manifest file that parses to a mapping
CallLoadManifest ==
    /\ call.of = "load_manifest"
    /\ call.fn = ""
    /\ call' = [of |-> call.of, fn |-> "load_manifest", args |-> call.args[1],
                value |-> Some(load_manifest(call.args[1], call.args[2]))]
    /\ UNCHANGED runner_vars

\* ConstraintsCheck().run(df, config)
CallConstraintsCheck ==
    /\ call.of = "ConstraintsCheck"
    /\ call.fn = ""
    /\ call' = [of |-> call.of, fn |-> "ConstraintsCheck.run", args |-> call.args,
                value |-> Some(ConstraintsCheck_run(call.args[1], call.args[2]))]
    /\ UNCHANGED runner_vars

\* ConstraintsCheck()._validate_telefone(df, config)
CallValidateTelefone ==
    /\ call.of = "_validate_telefone"
    /\ call.fn = ""
    /\ call' = [of |-> call.of, fn |-> "ConstraintsCheck._validate_telefone", args |-> call.args,
                value |-> Some(cons_validate_telefone(call.args[1], call.args[2]))]
    /\ UNCHANGED runner_vars

\* SchemaCheck().run(df, config)
CallSchemaCheck ==
    /\ call.of = "SchemaCheck"
    /\ call.fn = ""
    /\ call' = [of |-> call.of, fn |-> "SchemaCheck.run", args |-> call.args,
                value |-> Some(SchemaCheck_run(call.args[1], call.args[2]))]
    /\ UNCHANGED runner_vars

NextCalls ==
    \/ CallLt
    \/ CallSorted
    \/ CallLoadManifest
    \/ CallConstraintsCheck
    \/ CallValidateTelefone
    \/ CallSchemaCheck

SpecCalls == InitCalls /\ [][NextCalls]_vars

(***************************************************************************)
(* Properties of ValidationRunner.run                                      *)
(***************************************************************************)
\* the registered check names, by position in self.checks
RegisteredNames == [p \in 1..Len(self.checks) |-> CheckName(self.checks[p])]

\* the check at position p is skipped
Skipped(p) == RegisteredNames[p] \in Range(self.skip_checks)

\* the positions of the registered checks that are not skipped
NotSkipped == {p \in 1..Len(self.checks) : ~Skipped(p)}

\* the place in the results list of the result of the non-skipped check at p
ResultIndex(p) == Cardinality({q \in NotSkipped : q <= p})

\* the entries of trace in which the check at position p was executed
Executions(p) == {k \in DOMAIN trace : trace[k].pos = p /\ trace[k].event # "skipped"}

\* run has returned and the caller has not touched the report
RunReturned == pc = "returned" /\ edits = 0

\* C1: fault isolation. Whatever checks raise, run executes every non-skipped
\* check, the report holds exactly one result per non-skipped check, the
\* result of a raising check has passed = false, and the result of a check
\* that returned is the result it returned (the duration stamp apart).
C1_FaultIsolation ==
    RunReturned =>
        /\ Len(report.v.results) = Cardinality(NotSkipped)
        /\ \A p \in NotSkipped :
            /\ Executions(p) # {}
            /\ \A k \in Executions(p) :
                LET r == report.v.results[ResultIndex(p)]
                IN  IF trace[k].event = "raised" THEN r.passed = FALSE
                    ELSE r = [trace[k].out EXCEPT !.duration_seconds = r.duration_seconds]

\* a run of three or more checks in which a check between two others raised
C1_Witness ==
    /\ RunReturned
    /\ \E k1, k2, k3 \in DOMAIN trace :
        /\ k1 < k2 /\ k2 < k3
        /\ trace[k1].event = "returned"
        /\ trace[k2].event = "raised"
        /\ trace[k3].event = "returned"
        /\ report.v.results[ResultIndex(trace[k3].pos)].category = RegisteredNames[trace[k3].pos]

\* C2: the result synthesized for a check whose timed execution raised has
\* the check's name as category, passed = false, exactly one error, which is
\* of BLOCKER severity and carries the exception type name and the trace in
\* its details, and no warnings and no info.
C2_FaultResultShape ==
    \A k \in DOMAIN trace :
        trace[k].event = "raised" =>
            LET r == results[ResultIndex(trace[k].pos)]
            IN  /\ r.category = RegisteredNames[trace[k].pos]
                /\ r.passed = FALSE
                /\ Len(r.errors) = 1
                /\ r.errors[1].severity = "BLOCKER"
                /\ r.errors[1].details.exception = trace[k].exc
                /\ trace[k].exc \in Range(r.errors[1].details.traceback)
                /\ r.warnings = <<>>
                /\ r.info = <<>>

\* a built-in check and a caller's check raised in the same run
C2_Witness ==
    /\ pc = "returned"
    /\ \E k1, k2 \in DOMAIN trace :
        /\ trace[k1].exc = "AttributeError"
        /\ RegisteredNames[trace[k1].pos] = "geospatial"
        /\ trace[k2].exc = "ValueError"
        /\ RegisteredNames[trace[k2].pos] = "custom_a"

\* C3: whenever a report exists, ValidationReport.passed is the logical AND
\* of passed over the results the report holds at that moment, also after the
\* caller changed the results.
C3_ReportPassedIsConjunction ==
    ~report.isNone =>
        (ReportPassed(report.v) <=>
            \A k \in 1..Len(report.v.results) : report.v.results[k].passed)

\* a report with a passing and a failing result, to which the caller then
\* added a result: it does not pass
C3_Witness ==
    /\ pc = "returned"
    /\ edits = 1
    /\ Len(report.v.results) > Len(results)
    /\ \E k1, k2 \in 1..Len(report.v.results) :
        report.v.results[k1].passed /\ ~report.v.results[k2].passed
    /\ ~ReportPassed(report.v)

\* C4: every ValidationResult has passed = true exactly when its errors
\* bucket is empty: the results the checks returned, the results of the
\* runner, and the results of a report after an append to errors.
C4_PassedIffNoErrors ==
    /\ \A k \in DOMAIN trace :
        trace[k].event = "returned" => (trace[k].out.passed <=> trace[k].out.errors = <<>>)
    /\ \A k \in 1..Len(results) : results[k].passed <=> results[k].errors = <<>>
    /\ ~report.isNone =>
        \A k \in 1..Len(report.v.results) :
            report.v.results[k].passed <=> report.v.results[k].errors = <<>>

\* C5: the categories of the results of the returned report are the
\* registered check names in registration order, the skipped names removed.
C5_RegistrationOrder ==
    RunReturned =>
        [k \in 1..Len(report.v.results) |-> report.v.results[k].category]
            = SelectSeq(RegisteredNames, LAMBDA n : n \notin Range(self.skip_checks))

\* two checks registered against the alphabet, the first passes and the
\* second raises
C5_Witness ==
    /\ RunReturned
    /\ RegisteredNames = <<"vocab", "geospatial">>
    /\ Len(report.v.results) = 2
    /\ report.v.results[1].passed
    /\ \E k \in DOMAIN trace : trace[k].event = "raised" /\ trace[k].pos = 2

\* C6: skip semantics. The returned report holds no result whose category is
\* in skip_checks, it holds as many results as there are registered checks
\* whose name is not in skip_checks, and a skipped check is never executed.
C6_SkipSemantics ==
    RunReturned =>
        /\ \A k \in 1..Len(report.v.results) :
            report.v.results[k].category \notin Range(self.skip_checks)
        /\ Len(report.v.results)
            = Cardinality({p \in 1..Len(self.checks) :
                            RegisteredNames[p] \notin Range(self.skip_checks)})
        /\ \A p \in 1..Len(self.checks) : Skipped(p) => Executions(p) = {}

\* a run in which one registered check is skipped and another is not
C6_Witness ==
    /\ RunReturned
    /\ \E p, q \in 1..Len(self.checks) : Skipped(p) /\ ~Skipped(q)
    /\ Len(report.v.results) = Len(self.checks) - 1

\* C7: when run returns, every registered check that is not skipped was
\* executed exactly once and every skipped check not at all, faults included.
C7_ExactlyOnce ==
    pc = "returned" =>
        \A p \in 1..Len(self.checks) :
            Cardinality(Executions(p)) = IF Skipped(p) THEN 0 ELSE 1

\* a run with a skipped check, a check that raised and a check that returned
C7_Witness ==
    /\ pc = "returned"
    /\ \E k1, k2, k3 \in DOMAIN trace :
        /\ trace[k1].event = "skipped"
        /\ trace[k2].event = "raised"
        /\ trace[k3].event = "returned"

\* C8: row_count and column_count of the returned report are the dimensions
\* the dataset had when run began.
C8_CountsAtRunBegin ==
    RunReturned =>
        /\ report.v.row_count = NRows(df_begin)
        /\ report.v.column_count = NCols(df_begin)

\* C9: the result timed_run hands back is the result run returned with only
\* duration_seconds changed: category, passed, errors, warnings and info are
\* as run returned them.
C9_TimedRunFrame ==
    \A k \in DOMAIN trace :
        trace[k].event = "returned" =>
            LET r == results[ResultIndex(trace[k].pos)]
                out == trace[k].out
            IN  /\ DOMAIN r = DOMAIN out
                /\ r.category = out.category
                /\ r.passed = out.passed
                /\ r.errors = out.errors
                /\ r.warnings = out.warnings
                /\ r.info = out.info

\* a check returned errors and warnings and its result was stamped with a
\* duration other than the one it carried
C9_Witness ==
    \E k \in DOMAIN trace :
        /\ trace[k].event = "returned"
        /\ trace[k].out.errors # <<>>
        /\ trace[k].out.warnings # <<>>
        /\ results[ResultIndex(trace[k].pos)].duration_seconds # trace[k].out.duration_seconds

\* C10: no built-in check raises, whatever the dataset and the configuration.
C10_BuiltinsNeverRaise ==
    \A k \in DOMAIN trace :
        RegisteredNames[trace[k].pos] \in Range(ALL_CHECKS) => trace[k].event # "raised"

\* only built-in checks have been executed in this call of run
OnlyBuiltinsRan ==
    \A k \in DOMAIN trace :
        trace[k].event = "skipped" \/ RegisteredNames[trace[k].pos] \in Range(ALL_CHECKS)

\* C11: a run of built-in checks leaves its inputs unchanged. At every point
\* of the run, and when it has returned, the dataset (columns, rows, values,
\* order) and the configuration are what they were when run was called, so
\* every check is handed the same dataset and configuration as the first.
C11_InputsUnchanged ==
    (pc \in {"running", "returned"} /\ OnlyBuiltinsRan) =>
        /\ df = df_begin
        /\ self.config.v = config_begin

\* the nine built-in checks have run on the frame with untrimmed strings and
\* missing cells, under the manifest with constraints
C11_Witness ==
    /\ pc = "returned"
    /\ Cardinality({k \in DOMAIN trace : trace[k].event # "skipped"}) = Len(ALL_CHECKS)
    /\ OnlyBuiltinsRan
    /\ df_begin = FrameDirty
    /\ config_begin.constraints # <<>>

\* what a result holds apart from its duration: the passed flag and the
\* findings of the three buckets
Findings(result) ==
    [category |-> result.category, passed |-> result.passed, errors |-> result.errors,
     warnings |-> result.warnings, info |-> result.info]

\* both calls of run on the same frame and the same configuration have
\* returned, with no edit of either report by the caller
RanTwice ==
    /\ pc = "returned"
    /\ ~first.isNone
    /\ edits = 0
    /\ df = df_begin
    /\ self.config.v = config_begin

\* C12: idempotence. Two runs of the same built-in checks on the same
\* unmodified dataset with the same configuration yield, check by check,
\* results with the same passed flag and the same findings in every bucket;
\* only the durations may differ.
C12_Idempotent ==
    RanTwice =>
        /\ Len(report.v.results) = Len(first.v.results)
        /\ \A k \in 1..Len(report.v.results) :
                Findings(report.v.results[k]) = Findings(first.v.results[k])

\* the place of a severity in INFO < MINOR < MAJOR < BLOCKER
Rank(sev) ==
    CASE sev = "Severity.INFO" -> 0
      [] sev = "Severity.MINOR" -> 1
      [] sev = "Severity.MAJOR" -> 2
      [] sev = "Severity.BLOCKER" -> 3

\* C13: the comparison on Severity is a strict total order with
\* INFO < MINOR < MAJOR < BLOCKER: it is irreflexive and transitive, exactly
\* one of a < b, a = b, b < a holds, and sorting findings by severity keeps
\* every finding and places every finding of a lower severity before every
\* finding of a higher one.
C13_SeverityOrder ==
    /\ call.fn = "Severity.__lt__" =>
        LET a == call.args[1]
            b == call.args[2]
            c == call.args[3]
            lt == call.value.v
        IN  /\ ~lt.aa
            /\ (lt.ab /\ lt.bc) => lt.ac
            /\ (lt.ab /\ a # b /\ ~lt.ba) \/ (~lt.ab /\ a = b /\ ~lt.ba)
                    \/ (~lt.ab /\ a # b /\ lt.ba)
            /\ lt.ab <=> Rank(a) < Rank(b)
    /\ call.fn = "sorted" =>
        LET out == call.value.v
        IN  /\ Len(out) = Len(call.args)
            /\ Range(out) = Range(FindingsOf(call.args))
            /\ \A p, q \in 1..Len(out) :
                    Rank(out[p].severity) < Rank(out[q].severity) => p < q

\* three findings given from the highest severity to the lowest have been
\* sorted
C13_Witness ==
    /\ call.fn = "sorted"
    /\ call.args = <<"Severity.BLOCKER", "Severity.MINOR", "Severity.INFO">>
    /\ call.value.v[1].severity = "Severity.INFO"
    /\ call.value.v[3].severity = "Severity.BLOCKER"

\* C14: absence of a manifest is permitted. run_validation called without a
\* manifest path, and ValidationRunner constructed without a configuration,
\* build a default configuration and raise no configuration error.
C14_NoManifestPermitted ==
    (\/ origin.point = "run_validation" /\ origin.manifest.isNone
     \/ origin.point = "ValidationRunner" /\ self.config.isNone)
        => origin.exc = ""

\* the entry point was given a manifest path that names a missing file or a
\* file that is no YAML mapping
BadManifestGiven ==
    /\ origin.point \in {"run_validation", "from_manifest"}
    /\ ~origin.manifest.isNone
    /\ origin.manifest.v \in BadManifestPaths

\* C15: a manifest path that names a missing file, or a manifest that cannot
\* be parsed, makes run_validation and from_manifest fail with an error
\* before the dataset is loaded and before any check is executed; no report
\* is produced.
C15_BadManifestFailsFast ==
    BadManifestGiven =>
        /\ pc \in {"failed", "exited"}
        /\ origin.exc \in {"FileNotFoundError", "YAMLError", "AttributeError"}
        /\ ~origin.loaded
        /\ trace = <<>>
        /\ results = <<>>
        /\ report = None

\* run_validation was given the path of a missing manifest
C15_Witness ==
    /\ BadManifestGiven
    /\ origin.point = "run_validation"
    /\ origin.manifest.v = "missing.yaml"
    /\ pc = "failed"

\* the configuration of the manifest with every section written
FullConfig == load_manifest(ManifestFull, NoMappings)

\* the part of a configuration the section of a manifest is loaded into
SectionConfig(config, section) ==
    CASE section = "input" -> <<config.input_file, config.sheet_name>>
      [] section = "columns" -> config.columns
      [] section = "constraints" -> config.constraints
      [] section = "controlled_vocab" -> config.controlled_vocab
      [] section = "geospatial" -> config.geospatial
      [] section = "cross_field" -> config.cross_field
      [] section = "uniqueness" -> config.uniqueness_columns
      [] section = "missingness" -> config.missingness

\* that part when it is empty or disabled
EmptySection(section) ==
    CASE section = "input" -> <<"", None>>
      [] section = "geospatial" -> None
      [] OTHER -> <<>>

\* C16: for every subset of the sections omitted from a parsable manifest,
\* load_manifest returns a configuration in which each omitted section is
\* empty or disabled (empty list, empty mapping or None) and each written
\* section is loaded as given.
C16_OmittedSectionsEmpty ==
    call.fn = "load_manifest" =>
        \A section \in SectionNames :
            SectionConfig(call.value.v, section) =
                IF HasKey(call.args, section) THEN SectionConfig(FullConfig, section)
                ELSE EmptySection(section)

\* the columns of the frame for which the entries (a mapping from column to
\* ConstraintConfig or VocabConfig) declare a severity that is no member name
UnknownSeverityColumns(entries, frame) ==
    {entries[e][1] : e \in {e \in 1..Len(entries) :
                                /\ entries[e][2].severity \notin SeverityMembers
                                /\ HasColumn(frame, entries[e][1])}}

\* the findings of a result about the values of a column, whatever the bucket
ValueFindings(result, col) ==
    LET all == result.errors \o result.warnings \o result.info
    IN  {all[f] : f \in {f \in 1..Len(all) :
                            /\ all[f].column = Some(col)
                            /\ all[f].message[1] \in
                                    {"CNES com formato invalido (%d registros)",
                                     "'%s' com formato invalido (%d registros)",
                                     "'%s' contem %d valores fora do vocabulario"}}}

\* the check of the step is one of the two given a severity that is no
\* member name for a column the frame has
UnknownSeverityStep(k) ==
    /\ trace[k].event # "skipped"
    /\ \/ /\ RegisteredNames[trace[k].pos] = "vocab"
          /\ UnknownSeverityColumns(config_begin.controlled_vocab, df_begin) # {}
       \/ /\ RegisteredNames[trace[k].pos] = "constraints"
          /\ UnknownSeverityColumns(config_begin.constraints, df_begin) # {}

\* C17: a constraint or vocabulary entry whose severity is not one of INFO,
\* MINOR, MAJOR, BLOCKER is resolved to MAJOR: the constraints check and the
\* vocabulary check return normally and report the violations of that entry
\* as MAJOR findings, among the errors.
C17_UnknownSeverityIsMajor ==
    \A k \in DOMAIN trace :
        UnknownSeverityStep(k) =>
            /\ trace[k].event = "returned"
            /\ \A col \in UnknownSeverityColumns(config_begin.controlled_vocab, df_begin)
                            \cup UnknownSeverityColumns(config_begin.constraints, df_begin) :
                \A finding \in ValueFindings(trace[k].out, col) :
                    /\ finding.severity = "Severity.MAJOR"
                    /\ \E f \in 1..Len(trace[k].out.errors) : trace[k].out.errors[f] = finding

\* the findings about the null rate of a column in a bucket of a result
NullRateFindings(bucket, col) ==
    {f \in 1..Len(bucket) :
        /\ bucket[f].column = Some(col)
        /\ bucket[f].message[1] = "'%s' tem %d nulos (maximo: %d)"}

\* C18: a missingness entry whose severity is absent or is no canonical name
\* is resolved to INFO: when the null rate of the column exceeds the maximum,
\* the finding carries severity INFO, is in the info bucket and does not make
\* the constraints check fail; a recognized severity is kept and routed to
\* errors (BLOCKER, MAJOR), warnings (MINOR) or info (INFO).
C18_MissingnessSeverity ==
    call.fn = "ConstraintsCheck.run" =>
        LET frame == call.args[1]
            col == call.args[2].missingness[1][1]
            entry == call.args[2].missingness[1][2]
            result == call.value.v.result
            nulls == Cardinality({r \in 1..NRows(frame) : frame.rows[r][col] = NaN})
            exceeded == NRows(frame) > 0 /\ nulls * 100 > Lookup(entry, "max_null_rate") * NRows(frame)
            name == IF HasKey(entry, "severity") /\ Lookup(entry, "severity") \in SeverityMembers
                    THEN Lookup(entry, "severity") ELSE "INFO"
            place == CASE name \in {"BLOCKER", "MAJOR"} -> result.errors
                       [] name = "MINOR" -> result.warnings
                       [] OTHER -> result.info
            count == Cardinality(NullRateFindings(result.errors, col))
                        + Cardinality(NullRateFindings(result.warnings, col))
                        + Cardinality(NullRateFindings(result.info, col))
        IN  /\ call.value.v.exc = ""
            /\ count = IF exceeded THEN 1 ELSE 0
            /\ Cardinality(NullRateFindings(place, col)) = count
            /\ \A f \in NullRateFindings(place, col) : place[f].severity = SeverityOf(name)
            /\ name = "INFO" =>
                    result.passed = (ConstraintsCheck_run(frame, DefaultConfig).result.passed)

\* the null rate of Region exceeds the maximum of an entry whose severity is
\* no member name, and the finding is in the info bucket
C18_Witness ==
    /\ call.fn = "ConstraintsCheck.run"
    /\ call.args[1] = FrameDirty
    /\ call.args[2].missingness = << <<"Region", << <<"max_null_rate", 0>>, <<"severity", "CRITICAL">> >> >> >>
    /\ NullRateFindings(call.value.v.result.info, "Region") # {}
    /\ call.value.v.result.info[CHOOSE f \in NullRateFindings(call.value.v.result.info, "Region") : TRUE].severity
            = "Severity.INFO"

\* the constraints check was given a missingness entry whose severity is
\* written but is no member name, and resolved it: the null rate of the
\* column exceeds the maximum
FallbackApplied ==
    /\ call.fn = "ConstraintsCheck.run"
    /\ LET frame == call.args[1]
           col == call.args[2].missingness[1][1]
           entry == call.args[2].missingness[1][2]
       IN  /\ HasKey(entry, "severity")
           /\ Lookup(entry, "severity") \notin SeverityMembers
           /\ NRows(frame) > 0
           /\ Cardinality({r \in 1..NRows(frame) : frame.rows[r][col] = NaN}) * 100
                    > Lookup(entry, "max_null_rate") * NRows(frame)

\* the configuration of the call with the severity of its missingness entry
\* written as the default it falls back to
WithDefaultWritten(config) ==
    [config EXCEPT !.missingness =
        << <<config.missingness[1][1],
             << <<"max_null_rate", Lookup(config.missingness[1][2], "max_null_rate")>>,
                <<"severity", "INFO">> >> >> >>]

\* C19: whenever a check resolves an unrecognized severity string to its
\* default, its result contains an info-level finding that reports the
\* fallback; the info bucket therefore holds a finding more than the info
\* bucket of the same check run with the default written in the manifest.
C19_FallbackReported ==
    FallbackApplied =>
        Len(call.value.v.result.info)
            > Len(ConstraintsCheck_run(call.args[1], WithDefaultWritten(call.args[2])).result.info)

\* the findings of a bucket about an expected column
ColumnFindings(bucket, col_name) ==
    {bucket[f] : f \in {f \in 1..Len(bucket) : bucket[f].column = Some(col_name)}}

\* C20: alias resolution in the schema check. An expected column whose
\* canonical name is absent from the dataset but one of whose aliases is
\* present is reported as found, not missing: no error finding for it, required
\* or not, and one info finding naming the alias used, which is the first
\* alias in declaration order that occurs in the dataset. When the canonical
\* name itself is present no alias is attributed.
C20_AliasResolution ==
    call.fn = "SchemaCheck.run" =>
        LET frame == call.args[1]
            expected == call.args[2].columns[2]
            result == call.value.v.result
            present == {a \in 1..Len(expected.aliases) : HasColumn(frame, expected.aliases[a])}
            about == ColumnFindings(result.info, expected.name)
        IN  /\ call.value.v.exc = ""
            /\ (~HasColumn(frame, expected.name) /\ present # {}) =>
                    /\ ColumnFindings(result.errors, expected.name) = {}
                    /\ Cardinality(about) = 1
                    /\ \A finding \in about :
                        /\ finding.severity = "Severity.INFO"
                        /\ finding.details.v.alias_used =
                                expected.aliases[CHOOSE a \in present : \A b \in present : a <= b]
                        /\ finding.message[3] = finding.details.v.alias_used
            /\ HasColumn(frame, expected.name) =>
                    /\ ColumnFindings(result.errors, expected.name) = {}
                    /\ about = {}

\* a required column is absent, its two aliases are columns of the frame in
\* the order opposite to their declaration, and the first declared is named
C20_Witness ==
    /\ call.fn = "SchemaCheck.run"
    /\ call.args[1].columns = <<"federal_unit", "fed_unit">>
    /\ call.args[2].columns[2].aliases = <<"fed_unit", "federal_unit">>
    /\ call.args[2].columns[2].required
    /\ call.value.v.result.passed
    /\ \E f \in 1..Len(call.value.v.result.info) :
            /\ call.value.v.result.info[f].column = Some("Federal_Un")
            /\ call.value.v.result.info[f].details = Some([alias_used |-> "fed_unit"])

(***************************************************************************)
(* The command line                                                        *)
(***************************************************************************)
\* main has returned for the call of run_validation of this behaviour
MainReturned == origin.point = "run_validation" /\ ~origin.exit.isNone

\* some result of the report has a finding in the given bucket
SomeFinding(rep, bucket) == Bucket(rep, bucket) # <<>>

\* C21: main returns 2 exactly when some result of the report has a
\* non-empty errors bucket; 1 when there is no such result, --fail-on-warning
\* is given and some result has a warning, and 1 when validation could not
\* run; 0 otherwise
C21_ExitCode ==
    MainReturned =>
        origin.exit.v =
            IF report.isNone THEN 1
            ELSE IF SomeFinding(report.v, "errors") THEN 2
            ELSE IF origin.fail_on_warning /\ SomeFinding(report.v, "warnings") THEN 1
            ELSE 0

\* main returned 0 for a report with a warning and without an error, the
\* option --fail-on-warning not being given
C21_Witness ==
    /\ MainReturned
    /\ ~report.isNone
    /\ ~origin.fail_on_warning
    /\ SomeFinding(report.v, "warnings")
    /\ ~SomeFinding(report.v, "errors")
    /\ origin.exit = Some(0)

\* C22: a fault of one check never aborts the run, at whichever step of the
\* handling of that check it occurs (instantiation, the reading of the name
\* for the skip test, execution): run does not raise, every check whose
\* handling was started is skipped or has its result, a failed one for a
\* check that raised
C22_FaultNeverAborts ==
    /\ pc # "raised"
    /\ \A p \in 1..Len(trace) :
        /\ trace[p].event \in {"skipped", "returned", "raised"}
        /\ trace[p].event = "raised" =>
                \E k \in 1..Len(results) :
                    /\ results[k].category = CheckName(self.checks[trace[p].pos])
                    /\ ~results[k].passed

\* C23: every finding in every bucket of every result of a report returned
\* by run carries a category equal to the category of the result that holds
\* it and a severity that is a member of Severity; this includes the finding
\* of the result synthesized for a check that raised
C23_FindingsCarryCategory ==
    RunReturned =>
        \A k \in 1..Len(report.v.results) :
            LET result == report.v.results[k]
                held == result.errors \o result.warnings \o result.info
            IN  \A f \in 1..Len(held) :
                    /\ "category" \in DOMAIN held[f]
                    /\ held[f].category = result.category
                    /\ held[f].severity \in Severity

\* the result was returned by a built-in check (it is not the result the
\* runner files for a check that raised)
ReturnedByBuiltin(result) ==
    /\ result.category \in Range(ALL_CHECKS)
    /\ \A f \in 1..Len(result.errors) : "category" \in DOMAIN result.errors[f]

\* C24: in every result returned by a built-in check every BLOCKER or MAJOR
\* finding is in errors, every MINOR finding in warnings and every INFO
\* finding in info, and the check fails exactly when it produced a BLOCKER or
\* MAJOR finding
C24_BucketsBySeverity ==
    RunReturned =>
        \A k \in 1..Len(report.v.results) :
            LET result == report.v.results[k]
                held == result.errors \o result.warnings \o result.info
            IN  ReturnedByBuiltin(result) =>
                    /\ \A f \in 1..Len(result.errors) :
                            result.errors[f].severity \in {"Severity.BLOCKER", "Severity.MAJOR"}
                    /\ \A f \in 1..Len(result.warnings) :
                            result.warnings[f].severity = "Severity.MINOR"
                    /\ \A f \in 1..Len(result.info) :
                            result.info[f].severity = "Severity.INFO"
                    /\ ~result.passed <=>
                            \E f \in 1..Len(held) :
                                held[f].severity \in {"Severity.BLOCKER", "Severity.MAJOR"}

\* the details of a finding have the given key (the finding the runner
\* files for a check that raised has details of its own shape)
HasDetail(finding, key) ==
    /\ "category" \in DOMAIN finding
    /\ ~finding.details.isNone
    /\ key \in DOMAIN finding.details.v

\* the finding reports the column as missing from the dataset
ReportsMissing(finding, name) ==
    \/ /\ "category" \in DOMAIN finding
       /\ finding.column = Some(name)
       /\ finding.actual = None
       /\ finding.expected = Some(name)
    \/ /\ HasDetail(finding, "missing_columns")
       /\ name \in finding.details.v.missing_columns

\* the finding reports the column of the dataset as one nothing expects
ReportsExtra(finding, name) ==
    \/ /\ HasDetail(finding, "extra_columns")
       /\ name \in finding.details.v.extra_columns
    \/ /\ HasDetail(finding, "unexpected_columns")
       /\ name \in finding.details.v.unexpected_columns

\* C25: across a run of the built-in checks, an expected column that the
\* dataset holds only under one of its declared aliases is treated as
\* present by every check: no error finding of the report reports it as
\* missing, and no finding reports the alias column as unexpected
C25_AliasPresentForEveryCheck ==
    (RunReturned /\ OnlyBuiltinsRan) =>
        \A c \in 1..Len(self.config.v.columns) :
            LET expected == self.config.v.columns[c]
                present == {a \in Range(expected.aliases) : HasColumn(df_begin, a)}
            IN  (~HasColumn(df_begin, expected.name) /\ present # {}) =>
                    \A k \in 1..Len(report.v.results) :
                        LET result == report.v.results[k]
                            held == result.errors \o result.warnings \o result.info
                        IN  /\ \A f \in 1..Len(result.errors) :
                                    ~ReportsMissing(result.errors[f], expected.name)
                            /\ \A f \in 1..Len(held), a \in present :
                                    ~ReportsExtra(held[f], a)

\* the keys under which a rule records the number of affected rows
TotalKeys ==
    {"total", "total_mismatches", "total_invalid", "total_duplicates", "total_outliers",
     "total_suspicious"}

\* the number of rows the finding is about: every rule that lists rows
\* formats the length of the untruncated list into its message
AffectedRows(finding) == finding.message[2]

\* C26: a finding of a built-in check that lists affected rows holds at most
\* the cap of its rule in row_indices, never more than 100 entries, and when
\* the list was truncated the total number of affected rows is recorded in
\* the details of the finding
C26_RowIndicesCapped ==
    (call.fn = "ConstraintsCheck._validate_telefone" /\ call.value.v.exc = "") =>
        LET held == call.value.v.warnings \o call.value.v.info
        IN  \A f \in 1..Len(held) :
                ~held[f].row_indices.isNone =>
                    /\ Len(held[f].row_indices.v) <= 100
                    /\ Len(held[f].row_indices.v) < AffectedRows(held[f]) =>
                            /\ ~held[f].details.isNone
                            /\ \E key \in TotalKeys \cap DOMAIN held[f].details.v :
                                    held[f].details.v[key] = AffectedRows(held[f])

\* the bounds a geospatial section resolves to: the plausible bounds of the
\* manifest over the defaults of GeoConfig
SectionBounds(geo) ==
    << <<"lat_min", geo.brazil_lat_min>>, <<"lat_max", geo.brazil_lat_max>>,
       <<"lon_min", geo.brazil_lon_min>>, <<"lon_max", geo.brazil_lon_max>> >>

\* C27: on a dataset with coordinate columns the geospatial check runs to
\* completion whether or not the manifest declares a geospatial section, and
\* tests the coordinates against the bounds resolved from the section, or
\* against the built-in Brazil bounding box when there is no section
C27_GeoBoundsFromManifest ==
    (RunReturned /\ OnlyBuiltinsRan /\ HasColumn(df_begin, "Lat") /\ HasColumn(df_begin, "Lon")) =>
        \A k \in 1..Len(report.v.results) :
            LET result == report.v.results[k]
                geo == geo_config(self.config.v)
                bounds == IF geo.isNone THEN BRAZIL_BOUNDS ELSE SectionBounds(geo.v)
            IN  result.category = "geospatial" =>
                    /\ ReturnedByBuiltin(result)
                    /\ \A f \in 1..Len(result.errors) :
                            HasDetail(result.errors[f], "bounds") =>
                                result.errors[f].details.v.bounds = bounds

\* the sum of the entries of a mapping from keys to numbers
RECURSIVE SumEntries(_, _)
SumEntries(counts, keys) ==
    IF keys = {} THEN 0
    ELSE LET key == CHOOSE k \in keys : TRUE
         IN  counts[key] + SumEntries(counts, keys \ {key})

\* C28: for every report the blocker, major and minor counts of
\* get_summary_stats equal the BLOCKER, MAJOR and MINOR entries of
\* count_by_severity(), and the three totals add up to the sum of all the
\* entries of count_by_severity(); results filed for a check that raised
\* are included
C28_AggregatesAgree ==
    pc = "returned" =>
        LET stats == get_summary_stats(report.v)
            counts == count_by_severity(report.v)
        IN  /\ stats.blocker_count = counts["BLOCKER"]
            /\ stats.major_count = counts["MAJOR"]
            /\ stats.minor_count = counts["MINOR"]
            /\ stats.total_errors + stats.total_warnings + stats.total_info
                    = SumEntries(counts, DOMAIN counts)

\* every registered class can be instantiated
AllInstantiate == \A p \in 1..Len(self.checks) : Instantiate(self.checks[p]) = ""

\* the skip set names every registered check
AllSkipped ==
    \A p \in 1..Len(self.checks) : CheckName(self.checks[p]) \in Range(self.skip_checks)

\* C29: when the skip set names every registered check (each of a class
\* that can be instantiated), run executes no check and returns a report
\* with no result, whose passed is true, whose total, passed and failed
\* counts are 0 and whose pass_rate is 0; in any run the checks skipped are
\* those the skip set names, so an entry naming no registered check changes
\* nothing
C29_AllSkipped ==
    /\ (pc = "running" /\ AllSkipped /\ AllInstantiate) =>
            /\ results = <<>>
            /\ \A p \in 1..Len(trace) : trace[p].event = "skipped"
    /\ (pc \in {"returned", "reported"} /\ edits = 0 /\ AllSkipped /\ AllInstantiate) =>
            /\ report.v.results = <<>>
            /\ \A p \in 1..Len(trace) : trace[p].event = "skipped"
            /\ ReportPassed(report.v)
            /\ TotalChecks(report.v) = 0
            /\ PassedChecks(report.v) = 0
            /\ FailedChecks(report.v) = 0
    /\ (pc = "reported" /\ AllSkipped /\ AllInstantiate) =>
            /\ call.value.v.total_checks = 0
            /\ call.value.v.passed = 0
            /\ call.value.v.failed = 0
            /\ call.value.v.pass_rate = 0
    /\ (pc \in {"returned", "reported"} /\ edits = 0) =>
            \A p \in 1..Len(trace) :
                trace[p].event = "skipped" <=>
                    CheckName(self.checks[trace[p].pos])
                        \in Range(self.skip_checks) \cap Range(self.checks)

\* two checks are registered, the skip set names both and also names checks
\* that are not registered, and to_dict was taken of the report returned
C29_Witness ==
    /\ pc = "reported"
    /\ self.checks = <<"geospatial", "custom_a">>
    /\ AllSkipped
    /\ \E name \in Range(self.skip_checks) : name \notin Range(self.checks)
    /\ Len(trace) = 2
    /\ report.v.results = <<>>
    /\ call.value.v.pass_rate = 0

\* the classes whose run was called in this call of run, in the order of
\* the calls
Executed ==
    LET calls == SelectSeq(trace, LAMBDA t : t.event \in {"returned", "raised"})
    IN  [k \in 1..Len(calls) |-> self.checks[calls[k].pos]]

\* the classes the runner is to execute for the argument checks it was
\* constructed with, the skipped ones left out
ToExecute ==
    SelectSeq(IF origin.checks.isNone \/ origin.checks.v = <<>>
              THEN <<"schema", "parsing", "constraints", "vocab", "coherence", "geospatial",
                     "uniqueness", "reproducibility", "perf">>
              ELSE origin.checks.v,
              LAMBDA cls : CheckName(cls) \notin Range(self.skip_checks))

\* C30: a runner constructed with no check list or with an empty one executes
\* exactly the built-in registry in its declared order; constructed with a
\* non-empty list it executes exactly the checks of that list, in its order
\* (the skipped ones left out); while run is under way the checks executed
\* are a prefix of these
C30_ChecksExecuted ==
    /\ (origin.point = "ValidationRunner" /\ pc \in {"returned", "reported"}) =>
            Executed = ToExecute
    /\ (origin.point = "ValidationRunner" /\ pc = "running") =>
            /\ Len(Executed) <= Len(ToExecute)
            /\ Executed = SubSeq(ToExecute, 1, Len(Executed))

\* a runner constructed with an empty check list and an empty skip list has
\* executed the nine built-in checks
C30_WitnessEmptyList ==
    /\ origin.point = "ValidationRunner"
    /\ origin.checks = Some(<<>>)
    /\ pc = "returned"
    /\ self.skip_checks = <<>>
    /\ Len(Executed) = 9
    /\ Executed = ALL_CHECKS

====
